---- MODULE Spec2Model ----
(***************************************************************************)
(* A model of the image analysis core of FrameGen AI: ImageUtils and       *)
(* AISuggestions (src/js/utils.js), AIComposer (ai-composer.js) and        *)
(* AdvancedImageAnalysis (advanced-tools.js); of the preset operations of  *)
(* ExportManager, SocialMediaPresets and CreativeFilters; and of the crop  *)
(* selection and the batch run of FrameGenAI (src/js/app.js); and of       *)
(* GestureController and CropGestureController (gesture-controller.js).    *)
(*                                                                         *)
(* Specifications.  Spec: one operation applied to one buffer.  SpecCalls: *)
(* the analysis operations called one after another.  SpecInvalid: the     *)
(* entry points on invalid buffers.  SpecPresets: the operations that take *)
(* a preset key.  SpecCrop: mouse events on the canvas.  SpecBatch: the    *)
(* filter dialog and the batch handlers.  SpecGroups: groupRegions on      *)
(* sample points.  SpecLines: the vote threshold of detectLeadingLines.    *)
(* SpecGesture: touch, mouse and wheel events and timers on a              *)
(* GestureController.  SpecCropGesture: start, move and end events on a    *)
(* CropGestureController.  SpecHistory: the export history over several    *)
(* calls.  SpecBatchRun: a batch run step by step, with the fairness of    *)
(* the browser's event delivery.                                           *)
(*                                                                         *)
(* Numbers.  JavaScript numbers are modelled as exact rationals            *)
(* [n |-> numerator, d |-> denominator] in lowest terms with d > 0; the    *)
(* value NaN is [n |-> 0, d |-> 0] and +/-Infinity is [n |-> +/-1, d |-> 0].*)
(* Rounding of IEEE doubles is not modelled: the arithmetic is exact.      *)
(* A square root is kept exact where the code only compares it with a      *)
(* constant (by comparing the squares) and is otherwise the floor of the   *)
(* root at a stated scale.                                                 *)
(***************************************************************************)
EXTENDS Integers, Sequences, FiniteSets, TLC

VARIABLES
    img,    \* the ImageData handed to the operation: [width, height, data]
    op,     \* the operation that was called last ("none" before any call)
    arg,    \* the crop selection passed to it (Null when there is none)
    res,    \* what the operation returned
    log,    \* the calls or the events so far, oldest first
    exportHistory,  \* ExportManager.exportHistory, newest first
    app,    \* the fields of the FrameGenAI instance (Null where there is none)
    gesture \* the fields of the gesture controller and the touches, the clock
            \* and the timers of its page (Null where there is none)

vars == <<img, op, arg, res, log, exportHistory, app, gesture>>

-----------------------------------------------------------------------------
(* Bounds of the model *)

MaxW == 4
MaxH == 4
MaxPixels == 16
MaxMarks == 1

\* RGBA colours the buffers are painted with (canvas ImageData is opaque).
Palette == { <<0, 0, 0, 255>>, <<255, 255, 255, 255>>, <<200, 100, 50, 255>> }

Null == [null |-> TRUE]

-----------------------------------------------------------------------------
(* JavaScript numbers *)

Abs(x) == IF x < 0 THEN -x ELSE x

Min2(a, b) == IF a < b THEN a ELSE b

Max2(a, b) == IF a > b THEN a ELSE b

RECURSIVE GCD(_, _)
GCD(a, b) == IF b = 0 THEN a ELSE GCD(b, a % b)

NaN == [n |-> 0, d |-> 0]

IsNaN(a) == a.d = 0 /\ a.n = 0

IsFinite(a) == a.d # 0

\* The number n/d; x/0 is +/-Infinity and 0/0 is NaN, as in JavaScript.
R(n, d) ==
    IF d = 0 THEN [n |-> (IF n > 0 THEN 1 ELSE IF n < 0 THEN -1 ELSE 0), d |-> 0]
    ELSE LET s == IF d < 0 THEN -1 ELSE 1
             g == GCD(Abs(n), Abs(d))
         IN  [n |-> (s * n) \div g, d |-> (s * d) \div g]

I(k) == [n |-> k, d |-> 1]

RAdd(a, b) ==
    IF IsFinite(a) /\ IsFinite(b)
    THEN LET l == (a.d \div GCD(a.d, b.d)) * b.d
         IN  R(a.n * (l \div a.d) + b.n * (l \div b.d), l)
    ELSE IF IsNaN(a) \/ IsNaN(b) THEN NaN
    ELSE IF IsFinite(a) THEN b
    ELSE IF IsFinite(b) THEN a
    ELSE IF a.n = b.n THEN a ELSE NaN

RNeg(a) == [n |-> -a.n, d |-> a.d]

RSub(a, b) == RAdd(a, RNeg(b))

RMul(a, b) ==
    IF IsFinite(a) /\ IsFinite(b)
    THEN LET g1 == GCD(Abs(a.n), b.d)
             g2 == GCD(Abs(b.n), a.d)
         IN  R((a.n \div g1) * (b.n \div g2), (a.d \div g2) * (b.d \div g1))
    ELSE IF IsNaN(a) \/ IsNaN(b) THEN NaN
    ELSE IF a.n = 0 \/ b.n = 0 THEN NaN
    ELSE [n |-> (IF (a.n > 0) = (b.n > 0) THEN 1 ELSE -1), d |-> 0]

RDiv(a, b) ==
    IF IsFinite(a) /\ IsFinite(b)
    THEN (IF b.n = 0 THEN R(a.n, 0)
          ELSE RMul(a, [n |-> (IF b.n < 0 THEN -b.d ELSE b.d), d |-> Abs(b.n)]))
    ELSE IF IsNaN(a) \/ IsNaN(b) THEN NaN
    ELSE IF IsFinite(a) THEN I(0)
    ELSE IF IsFinite(b) THEN [n |-> (IF (a.n > 0) = (b.n >= 0) THEN 1 ELSE -1), d |-> 0]
    ELSE NaN

RAbs(a) == [n |-> Abs(a.n), d |-> a.d]

\* a < b; every comparison with NaN is false.
RLt(a, b) ==
    IF IsNaN(a) \/ IsNaN(b) THEN FALSE
    ELSE IF IsFinite(a) /\ IsFinite(b) THEN a.n * b.d < b.n * a.d
    ELSE IF IsFinite(a) THEN b.n > 0
    ELSE IF IsFinite(b) THEN a.n < 0
    ELSE a.n < b.n

RLe(a, b) == RLt(a, b) \/ (~IsNaN(a) /\ ~IsNaN(b) /\ a = b)

\* Math.max and Math.min: NaN when either argument is NaN.
RMax(a, b) == IF IsNaN(a) \/ IsNaN(b) THEN NaN ELSE IF RLt(a, b) THEN b ELSE a

RMin(a, b) == IF IsNaN(a) \/ IsNaN(b) THEN NaN ELSE IF RLt(b, a) THEN b ELSE a

\* Math.floor of a finite number, as an integer.
Floor(a) == a.n \div a.d

\* The first k binary places of r / d, for 0 <= r < d, as an integer.
RECURSIVE BinaryPlaces(_, _, _)
BinaryPlaces(r, d, k) ==
    IF k = 0 THEN 0
    ELSE IF 2 * r >= d THEN 2 ^ (k - 1) + BinaryPlaces(2 * r - d, d, k - 1)
    ELSE BinaryPlaces(2 * r, d, k - 1)

\* A number rounded down to 20 binary places.  It stands for the rounding of
\* a double where the code adds numbers whose exact sum would need a
\* denominator beyond the model's integers.
Round20(a) ==
    IF ~IsFinite(a) THEN a
    ELSE LET q == a.n \div a.d
         IN  R(q * (2 ^ 20) + BinaryPlaces(a.n - q * a.d, a.d, 20), 2 ^ 20)

\* A number within [0, 1] (NaN is not).
InUnit(a) == RLe(I(0), a) /\ RLe(a, I(1))

\* The largest k with k * k <= n.
RECURSIVE ISqrtIn(_, _, _)
ISqrtIn(n, lo, hi) ==
    IF lo >= hi THEN lo
    ELSE LET mid == (lo + hi + 1) \div 2
         IN  IF mid * mid <= n THEN ISqrtIn(n, mid, hi) ELSE ISqrtIn(n, lo, mid - 1)

ISqrt(n) == ISqrtIn(n, 0, Min2(n, 46340))

RECURSIVE SumSeq(_)
SumSeq(s) == IF s = <<>> THEN 0 ELSE Head(s) + SumSeq(Tail(s))

-----------------------------------------------------------------------------
(* ImageData buffers *)

\* The ImageData of a w x h canvas whose pixel p (row-major, from 0) has colour
\* pix[p]: data holds the bytes R,G,B,A of pixel 0, then of pixel 1, ...
ImageData(w, h, pix) ==
    [width |-> w, height |-> h,
     data |-> [i \in 1..(4 * w * h) |-> pix[(i - 1) \div 4][((i - 1) % 4) + 1]]]

Sizes == { s \in (1..MaxW) \X (1..MaxH) : s[1] * s[2] <= MaxPixels }

\* Buffers of one background colour with at most MaxMarks pixels of another.
Buffers ==
    UNION { UNION { { ImageData(s[1], s[2],
                                [p \in 0..(s[1] * s[2] - 1) |-> IF p \in m THEN fg ELSE bg])
                      : m \in { q \in SUBSET (0..(s[1] * s[2] - 1)) :
                                  Cardinality(q) <= MaxMarks /\ (fg = bg => q = {}) } }
                    : fg \in Palette, bg \in Palette }
            : s \in Sizes }

\* 4 x 4 buffers with two pixels of another colour, at (1, 1) and (2, 2): every
\* interior pixel has an edge.
DiagonalBuffers ==
    { ImageData(4, 4, [p \in 0..15 |-> IF p \in {5, 10} THEN c[1] ELSE c[2]])
        : c \in { d \in Palette \X Palette : d[1] # d[2] } }

\* A skin tone of calculateSkinToneScore: y = 161.53, cr = 155.4, cb = 104.6.
Skin == <<200, 150, 120, 255>>

\* 5 x 1 buffers, the smallest that detectSubjects samples twice (x = 0 and
\* x = 4), with a skin tone at either sample or at both.
SkinBuffers ==
    { ImageData(5, 1, [p \in 0..4 |-> IF p \in m THEN Skin ELSE c])
        : m \in { {0}, {4}, {0, 4} }, c \in Palette }

\* data[idx] for an integer idx; a read outside the array is undefined, which
\* every use in the code turns into NaN by arithmetic.
DataAt(data, idx) == IF idx >= 0 /\ idx < Len(data) THEN I(data[idx + 1]) ELSE NaN

\* r + g + b of the pixel whose bytes start at idx (3 * gray, an integer).
Sum3(data, idx) == data[idx + 1] + data[idx + 2] + data[idx + 3]

-----------------------------------------------------------------------------
(* Array.prototype.sort and slice *)

\* s.sort(compare): a stable sort.  before holds the pairs <<i, j>> of indexes
\* for which compare(s[i], s[j]) < 0; elements that compare equal keep their
\* order.
SortDesc(s, before) ==
    LET pos(i) == 1 + Cardinality({ j \in 1..Len(s) :
                        j # i /\ (<<j, i>> \in before \/ (<<i, j>> \notin before /\ j < i)) })
    IN  [k \in 1..Len(s) |-> s[CHOOSE i \in 1..Len(s) : pos(i) = k]]

\* All pairs of indexes of s.
Pairs(s) == (1..Len(s)) \X (1..Len(s))

\* s.slice(0, k)
Slice0(s, k) == SubSeq(s, 1, Min2(k, Len(s)))

-----------------------------------------------------------------------------
(* ImageUtils (src/js/utils.js) *)

\* An element of `new Array(n)` that was never assigned: reading it gives
\* undefined.  Every assigned element of an edge map is >= 0.
Hole == -1

sobelX == <<-1, 0, 1, -2, 0, 2, -1, 0, 1>>

sobelY == <<-1, -2, -1, 0, 0, 0, 1, 2, 1>>

\* 3 * gx (or 3 * gy) at pixel (x, y): gray = (r + g + b) / 3 of each of the nine
\* neighbours times its kernel entry, summed.
Gradient3(im, x, y, kernel) ==
    SumSeq([k \in 1..9 |->
        Sum3(im.data, ((y + ((k - 1) \div 3) - 1) * im.width + (x + ((k - 1) % 3) - 1)) * 4)
            * kernel[k]])

\* magnitude = sqrt(gx*gx + gy*gy), kept as 9 * magnitude^2 (an integer).
Magnitude9(im, x, y) ==
    LET gx3 == Gradient3(im, x, y, sobelX)
        gy3 == Gradient3(im, x, y, sobelY)
    IN  gx3 * gx3 + gy3 * gy3

\* edges[y * width + x] is element y * width + x + 1 of the sequence.
ImageUtils_detectEdges(im) ==
    [i \in 1..(im.width * im.height) |->
        LET x == (i - 1) % im.width
            y == (i - 1) \div im.width
        IN  IF y >= 1 /\ y < im.height - 1 /\ x >= 1 /\ x < im.width - 1
            THEN Magnitude9(im, x, y)
            ELSE Hole]

\* edge > t for an element of an edge map (undefined > t is false).
EdgeGT(e, t) == e # Hole /\ e > 9 * t * t

\* floor(30 * magnitude) of an edge map element
Root30(e) == ISqrt(100 * e)

\* A window's edgeDensity = edgeSum / pixelCount is kept as the elements added
\* to edgeSum (each 9 * magnitude^2) and pixelCount.  With at most one element
\* the comparisons below are exact; a sum of several roots is compared at the
\* scale of Root30.
DensityGT(s, t) ==
    IF Len(s.added) = 0 THEN 0 > t
    ELSE IF Len(s.added) = 1 THEN s.added[1] > 9 * t * t * s.pixelCount * s.pixelCount
    ELSE SumSeq([k \in 1..Len(s.added) |-> Root30(s.added[k])]) > 30 * t * s.pixelCount

ScoreGT(a, b) ==
    IF Len(a.added) <= 1 /\ Len(b.added) <= 1 /\ a.pixelCount = b.pixelCount
    THEN (IF Len(a.added) = 0 THEN 0 ELSE a.added[1])
            > (IF Len(b.added) = 0 THEN 0 ELSE b.added[1])
    ELSE SumSeq([k \in 1..Len(a.added) |-> Root30(a.added[k])]) * b.pixelCount
            > SumSeq([k \in 1..Len(b.added) |-> Root30(b.added[k])]) * a.pixelCount

\* The window at (x, y) = (x8 / 8, y8 / 8): windowSize = min(width, height) / 4
\* and the loops step by windowSize / 2, so every coordinate is a multiple of
\* 1/8.  edges[idx] is undefined when idx is not an integer.
RoiWindow(im, edges, x8, y8) ==
    LET m == Min2(im.width, im.height)
        last == (m - 1) \div 4              \* wy, wx run over 0..last (wy < m / 4)
        cells == [c \in 1..((last + 1) * (last + 1)) |->
                    LET wy == (c - 1) \div (last + 1)
                        wx == (c - 1) % (last + 1)
                        idx8 == (y8 + 8 * wy) * im.width + (x8 + 8 * wx)
                    IN  IF idx8 % 8 = 0 /\ idx8 \div 8 < Len(edges)
                        THEN edges[(idx8 \div 8) + 1] ELSE Hole]
    IN  [x |-> R(x8, 8 * im.width),
         y |-> R(y8, 8 * im.height),
         width |-> R(2 * m, 8 * im.width),
         height |-> R(2 * m, 8 * im.height),
         score |-> [added |-> SelectSeq(cells, LAMBDA e : e # Hole /\ e # 0),
                    pixelCount |-> Len(cells)]]

\* RoiGT with the comparator a.score - b.score (ascending).
RoiGT_ascending(a, b) == ScoreGT(b.score, a.score)

RoiGT(a, b) == ScoreGT(a.score, b.score)

\* Every window of the scan, in scan order (y outer, x inner).
RoiWindows(im) ==
    LET edges == ImageUtils_detectEdges(im)
        m == Min2(im.width, im.height)
        ny == ((8 * im.height - 2 * m) + m - 1) \div m   \* y8 = 0, m, 2m, ... < 8h - 2m
        nx == ((8 * im.width - 2 * m) + m - 1) \div m
    IN  IF im.height = 0
        THEN <<>>
        ELSE [k \in 1..(ny * nx) |->
                RoiWindow(im, edges, ((k - 1) % nx) * m, ((k - 1) \div nx) * m)]

\* rois.sort((a, b) => b.score - a.score)
SortRois(rois) == SortDesc(rois, { p \in Pairs(rois) : RoiGT(rois[p[1]], rois[p[2]]) })

findRegionsOfInterest(im) ==
    Slice0(SortRois(SelectSeq(RoiWindows(im), LAMBDA r : DensityGT(r.score, 10))), 5)

\* Mean of (0.299 r + 0.587 g + 0.114 b) / 255 over the pixels.
getBrightness(im) ==
    LET n == Len(im.data) \div 4
    IN  R(SumSeq([p \in 1..n |-> 299 * im.data[4 * p - 3] + 587 * im.data[4 * p - 2]
                                    + 114 * im.data[4 * p - 1]]),
          255000 * n)

\* Quantize with Math.round in place of Math.floor.
Quantize_round(v) == ((v + 16) \div 32) * 32

Quantize(v) == (v \div 32) * 32

\* colorCounts after the keys were counted, as the entries of the object in
\* insertion order.  The key `${r},${g},${b}` is kept as the triple it spells.
RECURSIVE CountColors(_, _)
CountColors(keys, counts) ==
    IF keys = <<>> THEN counts
    ELSE LET key == Head(keys)
             at == { i \in 1..Len(counts) : counts[i].key = key }
         IN  CountColors(Tail(keys),
                IF at = {} THEN Append(counts, [key |-> key, count |-> 1])
                ELSE LET i == CHOOSE i \in at : TRUE
                     IN  [counts EXCEPT ![i].count = @ + 1])

\* The histogram of the sampled pixels: i = 0, 40, 80, ... < data.length.
colorCounts(im) ==
    CountColors([k \in 1..((Len(im.data) + 39) \div 40) |->
                    << Quantize(im.data[40 * (k - 1) + 1]),
                       Quantize(im.data[40 * (k - 1) + 2]),
                       Quantize(im.data[40 * (k - 1) + 3]) >>],
                <<>>)

CountGT(a, b) == a.count > b.count

\* Object.entries(colorCounts).sort(([,a], [,b]) => b - a)
SortEntries(entries) ==
    SortDesc(entries, { p \in Pairs(entries) : CountGT(entries[p[1]], entries[p[2]]) })

\* .map(([color]) => ({ r, g, b }))
ColorsOf(top) ==
    [k \in 1..Len(top) |-> [r |-> top[k].key[1], g |-> top[k].key[2], b |-> top[k].key[3]]]

getDominantColors(im, numColors) == ColorsOf(Slice0(SortEntries(colorCounts(im)), numColors))

-----------------------------------------------------------------------------
(* AISuggestions (src/js/utils.js) *)

\* SuggestionGT with the comparator a.score - b.score (ascending).
SuggestionGT_ascending(a, b) == a.score < b.score

SuggestionGT(a, b) == a.score > b.score

\* The push guarded by rois.length > 0.
FocusSuggestion(rois) ==
    IF Len(rois) > 0
    THEN << [name |-> "Focus on Interest",
             description |-> "Crop focused on the most interesting region",
             crop |-> rois[1],
             score |-> 85] >>
    ELSE <<>>

\* DarkSuggestion guarded by brightness < 0.5.
DarkSuggestion_half(brightness) ==
    IF RLt(brightness, R(5, 10))
    THEN << [name |-> "Dark Image Enhancement",
             description |-> "Crop to emphasize brighter areas",
             crop |-> [x |-> R(1, 10), y |-> R(1, 10), width |-> R(8, 10), height |-> R(8, 10)],
             score |-> 70] >>
    ELSE <<>>

\* The push guarded by brightness < 0.4.
DarkSuggestion(brightness) ==
    IF RLt(brightness, R(4, 10))
    THEN << [name |-> "Dark Image Enhancement",
             description |-> "Crop to emphasize brighter areas",
             crop |-> [x |-> R(1, 10), y |-> R(1, 10), width |-> R(8, 10), height |-> R(8, 10)],
             score |-> 70] >>
    ELSE <<>>

\* GoldenRatioSuggestion with cropHeight = cropWidth * goldenRatio.
GoldenRatioSuggestion_times ==
    LET goldenRatio == R(1618, 1000)
        cropWidth == R(6, 10)
        cropHeight == RMul(cropWidth, goldenRatio)
    IN  [name |-> "Golden Ratio",
         description |-> "Crop following the golden ratio",
         crop |-> [x |-> R(2, 10), y |-> R(2, 10), width |-> cropWidth, height |-> cropHeight],
         score |-> 90]

GoldenRatioSuggestion ==
    LET goldenRatio == R(1618, 1000)
        cropWidth == R(6, 10)
        cropHeight == RDiv(cropWidth, goldenRatio)
    IN  [name |-> "Golden Ratio",
         description |-> "Crop following the golden ratio",
         crop |-> [x |-> R(2, 10), y |-> R(2, 10), width |-> cropWidth, height |-> cropHeight],
         score |-> 90]

\* The suggestions in the order they are pushed, before the final sort.
GeneratedCropSuggestions(im) ==
    LET brightness == getBrightness(im)
        rois == findRegionsOfInterest(im)
    IN  << [name |-> "Balanced Composition",
            description |-> "Centered crop with balanced elements",
            crop |-> [x |-> R(2, 10), y |-> R(2, 10), width |-> R(6, 10), height |-> R(6, 10)],
            score |-> 75] >>
        \o FocusSuggestion(rois)
        \o DarkSuggestion(brightness)
        \o << [name |-> "Rule of Thirds",
               description |-> "Classic composition following rule of thirds",
               crop |-> [x |-> R(33, 100), y |-> R(33, 100), width |-> R(34, 100), height |-> R(34, 100)],
               score |-> 80],
              GoldenRatioSuggestion >>

\* suggestions.sort((a, b) => b.score - a.score)
SortSuggestions(suggestions) ==
    SortDesc(suggestions, { p \in Pairs(suggestions) :
                              SuggestionGT(suggestions[p[1]], suggestions[p[2]]) })

generateCropSuggestions(im) == SortSuggestions(GeneratedCropSuggestions(im))

-----------------------------------------------------------------------------
(* AIComposer (ai-composer.js) *)

AIComposer_detectEdges(im) ==
    [i \in 1..(im.width * im.height) |->
        LET x == (i - 1) % im.width
            y == (i - 1) \div im.width
        IN  IF y >= 1 /\ y < im.height - 1 /\ x >= 1 /\ x < im.width - 1
            THEN Magnitude9(im, x, y)
            ELSE Hole]

\* r + g + b of every pixel, in the order of the loop i = 0, 4, 8, ...
PixelSums(data) == [p \in 1..(Len(data) \div 4) |-> Sum3(data, 4 * (p - 1))]

\* How many elements of an edge map are > t.
CountAbove(edges, t) == Cardinality({ k \in 1..Len(edges) : EdgeGT(edges[k], t) })

\* sharpness * 0.4 + (1 - |exposure - 0.5| * 2) * 0.4 + (1 - noise) * 0.2.
\* noise = sqrt(sum((b - avg)^2) / n) / 255 = sqrt(n * sum(b3^2) - total3^2) / (765 n)
\* with b3 = 3 b; the root is floored.
analyzeTechnicalAspects(im) ==
    LET edges == AIComposer_detectEdges(im)
        n == Len(im.data) \div 4
        sums == PixelSums(im.data)
        total3 == SumSeq(sums)
        sharpness == R(CountAbove(edges, 30), Len(edges))
        exposure == R(total3, 765 * n)
        noise == R(ISqrt(n * SumSeq([p \in 1..n |-> sums[p] * sums[p]]) - total3 * total3),
                   765 * n)
    IN  RAdd(RAdd(RMul(sharpness, R(4, 10)),
                  RMul(RSub(I(1), RMul(RAbs(RSub(exposure, R(5, 10))), I(2))), R(4, 10))),
             RMul(RSub(I(1), noise), R(2, 10)))

\* The colours sampled at i = 0, 16, 32, ... and the share of pairs whose
\* distance is < 50 or > 200; one sample leaves 0 / 0.
analyzeColorHarmony(data) ==
    LET c == (Len(data) + 15) \div 16
        colors == [k \in 1..c |-> << data[16 * (k - 1) + 1], data[16 * (k - 1) + 2],
                                     data[16 * (k - 1) + 3] >>]
        dist2(a, b) == (a[1] - b[1]) * (a[1] - b[1]) + (a[2] - b[2]) * (a[2] - b[2])
                        + (a[3] - b[3]) * (a[3] - b[3])
        harmonyScore == Cardinality({ pr \in (1..c) \X (1..c) :
                            /\ pr[1] < pr[2]
                            /\ \/ dist2(colors[pr[1]], colors[pr[2]]) < 50 * 50
                               \/ dist2(colors[pr[1]], colors[pr[2]]) > 200 * 200 })
    IN  RMin(I(1), RDiv(I(harmonyScore), R(c * (c - 1), 2)))

analyzeMood(data) ==
    LET n == Len(data) \div 4
        warmColors == Cardinality({ p \in 1..n :
                        data[4 * p - 3] > data[4 * p - 2] /\ data[4 * p - 3] > data[4 * p - 1] })
        coolColors == Cardinality({ p \in 1..n :
                        /\ ~(data[4 * p - 3] > data[4 * p - 2] /\ data[4 * p - 3] > data[4 * p - 1])
                        /\ data[4 * p - 1] > data[4 * p - 3]
                        /\ data[4 * p - 1] > data[4 * p - 2] })
    IN  RSub(I(1), RAbs(RSub(R(warmColors, n), R(coolColors, n))))

analyzeVisualInterest(im) ==
    LET edges == AIComposer_detectEdges(im)
        totalPixels == im.width * im.height
        interestingPixels == CountAbove(edges, 20)
    IN  RMin(I(1), RDiv(I(interestingPixels), RMul(I(totalPixels), R(3, 10))))

analyzeArtisticAspects(im) ==
    RAdd(RAdd(RMul(analyzeColorHarmony(im.data), R(4, 10)),
              RMul(analyzeMood(im.data), R(3, 10))),
         RMul(analyzeVisualInterest(im), R(3, 10)))

\* ruleOfThirdsAnalysis with bestScore = Math.min(bestScore, score) from 1.
ruleOfThirdsAnalysis_min(im, cropSelection) ==
    IF cropSelection = Null THEN R(5, 10)
    ELSE
    LET m == Min2(im.width, im.height)
        cx6 == 6 * cropSelection.x + 3 * cropSelection.width
        cy6 == 6 * cropSelection.y + 3 * cropSelection.height
        score(ix, iy) ==
            LET d36 == (cx6 - 2 * ix * im.width) * (cx6 - 2 * ix * im.width)
                        + (cy6 - 2 * iy * im.height) * (cy6 - 2 * iy * im.height)
                distance == R(ISqrt(10000 * d36), 600)
            IN  RMax(I(0), RSub(I(1), RDiv(distance, R(m, 4))))
    IN  RMin(RMin(RMin(RMin(I(1), score(1, 1)), score(2, 1)), score(1, 2)), score(2, 2))

\* The distance from the crop centre to an intersection is sqrt(d36) / 6 with
\* d36 an integer (the centre is a multiple of 1/2, a third of a multiple of
\* 1/3); the root is floored at 1/100.
ruleOfThirdsAnalysis(im, cropSelection) ==
    IF cropSelection = Null THEN R(5, 10)
    ELSE
    LET m == Min2(im.width, im.height)
        cx6 == 6 * cropSelection.x + 3 * cropSelection.width
        cy6 == 6 * cropSelection.y + 3 * cropSelection.height
        score(ix, iy) ==
            LET d36 == (cx6 - 2 * ix * im.width) * (cx6 - 2 * ix * im.width)
                        + (cy6 - 2 * iy * im.height) * (cy6 - 2 * iy * im.height)
                distance == R(ISqrt(10000 * d36), 600)
            IN  RMax(I(0), RSub(I(1), RDiv(distance, R(m, 4))))
    IN  RMax(RMax(RMax(RMax(I(0), score(1, 1)), score(2, 1)), score(1, 2)), score(2, 2))

\* goldenRatioAnalysis returning 0 when there is no crop selection.
goldenRatioAnalysis_zero(im, cropSelection) ==
    IF cropSelection = Null THEN I(0)
    ELSE
    LET goldenRatio == R(1618, 1000)
        cropRatio == RDiv(I(cropSelection.width), I(cropSelection.height))
        ratioDifference == RAbs(RSub(cropRatio, goldenRatio))
    IN  RMax(I(0), RSub(I(1), RDiv(ratioDifference, goldenRatio)))

goldenRatioAnalysis(im, cropSelection) ==
    IF cropSelection = Null THEN R(5, 10)
    ELSE
    LET goldenRatio == R(1618, 1000)
        cropRatio == RDiv(I(cropSelection.width), I(cropSelection.height))
        ratioDifference == RAbs(RSub(cropRatio, goldenRatio))
    IN  RMax(I(0), RSub(I(1), RDiv(ratioDifference, goldenRatio)))

\* HalfColumns with the loop bound Math.floor(width / 2).
HalfColumns_floor(width) == width \div 2

\* How many x = 0, 1, 2, ... satisfy x < width / 2.
HalfColumns(width) == (width + 1) \div 2

\* For y = 0..height-1 and x = 0, 1, ... < width / 2: symmetryScore += 1 -
\* |left - right| / 255 with left = sum3 / 3, i.e. (765 - |sum3 - sum3'|) / 765.
symmetryAnalysis(im, cropSelection) ==
    LET half == HalfColumns(im.width)
        totalPixels == im.height * half
        terms == [k \in 1..totalPixels |->
                    LET y == (k - 1) \div half
                        x == (k - 1) % half
                        leftIdx == (y * im.width + x) * 4
                        rightIdx == (y * im.width + (im.width - 1 - x)) * 4
                    IN  765 - Abs(Sum3(im.data, leftIdx) - Sum3(im.data, rightIdx))]
    IN  RDiv(R(SumSeq(terms), 765), I(totalPixels))

leadingLinesAnalysis(im, cropSelection) ==
    LET edges == AIComposer_detectEdges(im)
        totalPixels == im.width * im.height
        leadingLinePixels == CountAbove(edges, 50)
    IN  RMin(I(1), RDiv(I(leadingLinePixels), RMul(I(totalPixels), R(1, 10))))

\* The region (x, y, width, height), each a number, summed with the row stride
\* Math.sqrt(data.length / 4).  When that root is no integer, idx is an integer
\* only in row 0; elsewhere data[idx] is undefined and the weight becomes NaN
\* (idx < data.length - 3 is compared exactly, by squares).
calculateVisualWeight(data, x, y, width, height) ==
    LET n == Len(data) \div 4
        root == ISqrt(n)
        whole == root * root = n
        startX == Floor(x)
        startY == Floor(y)
        endX == Floor(RAdd(x, width))
        endY == Floor(RAdd(y, height))
        nx == Max2(endX - startX, 0)
        ny == Max2(endY - startY, 0)
        \* what one (py, px) adds to weight, times 3: a number, 0 when skipped,
        \* or Hole for NaN
        cell(py, px) ==
            IF whole \/ py = 0
            THEN LET idx == (py * root + px) * 4
                 IN  IF idx < Len(data) - 3
                     THEN (IF idx >= 0 THEN Sum3(data, idx) ELSE Hole)
                     ELSE 0
            ELSE LET rhs == Len(data) - 3 - 4 * px
                     less == IF py > 0 THEN rhs > 0 /\ 16 * py * py * n < rhs * rhs
                             ELSE rhs > 0 \/ 16 * py * py * n > rhs * rhs
                 IN  IF less THEN Hole ELSE 0
        cells == [k \in 1..(ny * nx) |-> cell(startY + ((k - 1) \div nx), startX + ((k - 1) % nx))]
    IN  IF \E k \in 1..(ny * nx) : cells[k] = Hole THEN NaN ELSE R(SumSeq(cells), 3)

balanceAnalysis(im, cropSelection) ==
    LET width == I(im.width)
        height == I(im.height)
        halfW == R(im.width, 2)
        halfH == R(im.height, 2)
        leftWeight == calculateVisualWeight(im.data, I(0), I(0), halfW, height)
        rightWeight == calculateVisualWeight(im.data, halfW, I(0), halfW, height)
        topWeight == calculateVisualWeight(im.data, I(0), I(0), width, halfH)
        bottomWeight == calculateVisualWeight(im.data, I(0), halfH, width, halfH)
        horizontalBalance == RSub(I(1), RDiv(RAbs(RSub(leftWeight, rightWeight)),
                                             RMax(leftWeight, rightWeight)))
        verticalBalance == RSub(I(1), RDiv(RAbs(RSub(topWeight, bottomWeight)),
                                           RMax(topWeight, bottomWeight)))
    IN  RDiv(RAdd(horizontalBalance, verticalBalance), I(2))

depthAnalysis(im, cropSelection) ==
    LET n == Len(im.data) \div 4
        sharpPixels == Cardinality({ p \in 1..n :
                            Abs(im.data[4 * p - 3] - im.data[4 * p - 2])
                            + Abs(im.data[4 * p - 2] - im.data[4 * p - 1])
                            + Abs(im.data[4 * p - 1] - im.data[4 * p - 3]) > 30 })
    IN  R(sharpPixels, n)

\* The local object `scores` of analyzeCompositionRules.
compositionRules(im, cropSelection) ==
    [ruleOfThirds |-> ruleOfThirdsAnalysis(im, cropSelection),
     goldenRatio |-> goldenRatioAnalysis(im, cropSelection),
     symmetry |-> symmetryAnalysis(im, cropSelection),
     leadingLines |-> leadingLinesAnalysis(im, cropSelection),
     balance |-> balanceAnalysis(im, cropSelection),
     depth |-> depthAnalysis(im, cropSelection)]

\* totalScore += scores[rule], over a sequence of numbers.
RECURSIVE RSum(_)
RSum(s) == IF s = <<>> THEN I(0) ELSE RAdd(RSum(SubSeq(s, 1, Len(s) - 1)), s[Len(s)])

\* Object.keys(this.compositionRules), in insertion order.
ruleNames == <<"ruleOfThirds", "goldenRatio", "symmetry", "leadingLines", "balance", "depth">>

\* The mean of the six scores, each rounded as a double before it is added.
MeanScore(scores) ==
    RDiv(RSum([k \in 1..Len(ruleNames) |-> Round20(scores[ruleNames[k]])]), I(Len(ruleNames)))

analyzeCompositionRules(im, cropSelection) == MeanScore(compositionRules(im, cropSelection))

\* generateFeedback: what it appends to strengths, weaknesses and suggestions.
generateFeedback(analysis) ==
    LET technical == RLt(analysis.technicalScore, R(6, 10))
        artistic == RLt(analysis.artisticScore, R(6, 10))
        composition == RLt(analysis.compositionScore, R(6, 10))
    IN  [analysis EXCEPT
            !.weaknesses =
                (IF technical THEN <<"Image could benefit from better technical quality">> ELSE <<>>)
                \o (IF artistic THEN <<"Color harmony could be improved">> ELSE <<>>)
                \o (IF composition THEN <<"Composition could be enhanced">> ELSE <<>>),
            !.strengths =
                (IF technical THEN <<>> ELSE <<"Good technical quality">>)
                \o (IF artistic THEN <<>> ELSE <<"Strong artistic appeal">>)
                \o (IF composition THEN <<>> ELSE <<"Excellent composition">>),
            !.suggestions =
                (IF technical THEN <<"Consider improving focus and exposure">> ELSE <<>>)
                \o (IF artistic THEN <<"Try adjusting color balance or applying filters">> ELSE <<>>)
                \o (IF composition THEN <<"Consider using rule of thirds or golden ratio">> ELSE <<>>)
                \o (IF RLe(R(8, 10), analysis.overallScore)
                    THEN <<"This is a well-composed image!">>
                    ELSE IF RLe(R(6, 10), analysis.overallScore)
                    THEN <<"Good image with room for improvement">>
                    ELSE <<"Consider recomposing or editing the image">>)]

\* The analysis object once its three scores and the overall score are set.
Analysis(technicalScore, artisticScore, compositionScore) ==
    [overallScore |-> RAdd(RAdd(RMul(Round20(technicalScore), R(3, 10)),
                                RMul(Round20(artisticScore), R(3, 10))),
                           RMul(Round20(compositionScore), R(4, 10))),
     strengths |-> <<>>,
     weaknesses |-> <<>>,
     suggestions |-> <<>>,
     technicalScore |-> technicalScore,
     artisticScore |-> artisticScore,
     compositionScore |-> compositionScore]

analyzeComposition(im, cropSelection) ==
    generateFeedback(Analysis(analyzeTechnicalAspects(im),
                              analyzeArtisticAspects(im),
                              analyzeCompositionRules(im, cropSelection)))

\* The suggestions in the order they are pushed.  The object analyzeComposition
\* returns has no property `balance`: analysis.balance is undefined, and
\* undefined < 0.6 compares NaN.
IntelligentCropSuggestions(im) ==
    LET width == I(im.width)
        height == I(im.height)
        analysis == analyzeComposition(im, Null)
        analysis_balance == NaN
        goldenRatio == R(1618, 1000)
        cropWidth == RMul(width, R(6, 10))
        cropHeight == RDiv(cropWidth, goldenRatio)
    IN  (IF RLt(analysis.compositionScore, R(5, 10))
         THEN << [name |-> "Rule of Thirds Crop",
                  description |-> "Improve composition by following rule of thirds",
                  crop |-> [x |-> RMul(width, R(33, 100)), y |-> RMul(height, R(33, 100)),
                            width |-> RMul(width, R(34, 100)), height |-> RMul(height, R(34, 100))],
                  score |-> 85] >>
         ELSE <<>>)
        \o (IF RLt(analysis_balance, R(6, 10))
            THEN << [name |-> "Balanced Crop",
                     description |-> "Create better visual balance",
                     crop |-> [x |-> RMul(width, R(2, 10)), y |-> RMul(height, R(2, 10)),
                               width |-> RMul(width, R(6, 10)), height |-> RMul(height, R(6, 10))],
                     score |-> 80] >>
            ELSE <<>>)
        \o << [name |-> "Golden Ratio Crop",
               description |-> "Apply golden ratio for harmonious composition",
               crop |-> [x |-> RMul(width, R(2, 10)), y |-> RMul(height, R(2, 10)),
                         width |-> cropWidth, height |-> cropHeight],
               score |-> 90] >>

getIntelligentCropSuggestions(im) == SortSuggestions(IntelligentCropSuggestions(im))

-----------------------------------------------------------------------------
(* AdvancedImageAnalysis (advanced-tools.js) *)

Advanced_detectEdges(im) ==
    [i \in 1..(im.width * im.height) |->
        LET x == (i - 1) % im.width
            y == (i - 1) \div im.width
        IN  IF y >= 1 /\ y < im.height - 1 /\ x >= 1 /\ x < im.width - 1
            THEN Magnitude9(im, x, y)
            ELSE Hole]

calculateSymmetry(im) ==
    LET half == HalfColumns(im.width)
        totalPixels == im.height * half
        terms == [k \in 1..totalPixels |->
                    LET y == (k - 1) \div half
                        x == (k - 1) % half
                        leftIdx == (y * im.width + x) * 4
                        rightIdx == (y * im.width + (im.width - 1 - x)) * 4
                    IN  765 - Abs(Sum3(im.data, leftIdx) - Sum3(im.data, rightIdx))]
    IN  RDiv(R(SumSeq(terms), 765), I(totalPixels))

\* quad.weight of the quadrant at (x2 / 2, y2 / 2), of size width / 2 by
\* height / 2.  x and y step by 1 from a start that is a multiple of 1/2, so
\* idx = (y * width + x) * 4 is an integer, even when it is no multiple of 4 and
\* when it lies beyond the data (undefined, hence NaN).
QuadrantWeight(im, x2, y2) ==
    LET nx == (im.width + 1) \div 2
        ny == (im.height + 1) \div 2
        cells == [k \in 1..(ny * nx) |->
                    LET yy == y2 + 2 * ((k - 1) \div nx)
                        xx == x2 + 2 * ((k - 1) % nx)
                        idx == 2 * (yy * im.width + xx)
                    IN  RAdd(RAdd(DataAt(im.data, idx), DataAt(im.data, idx + 1)),
                             DataAt(im.data, idx + 2))]
    IN  IF \E k \in 1..(ny * nx) : IsNaN(cells[k]) THEN NaN
        ELSE R(SumSeq([k \in 1..(ny * nx) |-> cells[k].n]), 3)

calculateBalance(im) ==
    LET quadrants == << QuadrantWeight(im, 0, 0),
                        QuadrantWeight(im, im.width, 0),
                        QuadrantWeight(im, 0, im.height),
                        QuadrantWeight(im, im.width, im.height) >>
        totalWeight == RAdd(RAdd(RAdd(RAdd(I(0), quadrants[1]), quadrants[2]), quadrants[3]),
                            quadrants[4])
        term(q) == RSub(I(1), RAbs(RSub(RDiv(q, totalWeight), R(25, 100))))
        balanceScore == RAdd(RAdd(RAdd(RAdd(I(0), term(quadrants[1])), term(quadrants[2])),
                                  term(quadrants[3])), term(quadrants[4]))
    IN  RDiv(balanceScore, I(4))

-----------------------------------------------------------------------------
(* CompositionUtils (src/js/utils.js) *)

fib == <<1, 1, 2, 3, 5, 8, 13, 21, 34, 55, 89, 144>>

\* generateFibonacciGrid with the loop started at i = 0.
generateFibonacciGrid_fromZero(width, height) ==
    [k \in 1..Len(fib) |->
        LET ratio == R(fib[k], fib[Len(fib)])
        IN  [x |-> RMul(ratio, I(width)), y |-> RMul(ratio, I(height)), type |-> "fibonacci"]]

\* for (let i = 1; i < fib.length; i++): fib[i] of the code is fib[k + 1] here.
generateFibonacciGrid(width, height) ==
    [k \in 1..(Len(fib) - 1) |->
        LET ratio == R(fib[k + 1], fib[Len(fib)])
        IN  [x |-> RMul(ratio, I(width)), y |-> RMul(ratio, I(height)), type |-> "fibonacci"]]

-----------------------------------------------------------------------------
(* AdvancedImageAnalysis: subject detection (advanced-tools.js) *)

\* 0.8 when (r, g, b) is a skin tone in YCrCb, else 0.1.  y = 0.299 r + 0.587 g +
\* 0.114 b is kept as 1000 y, cr = 0.713 (r - y) + 128 and cb = 0.564 (b - y) + 128
\* as 10^6 cr and 10^6 cb.
calculateSkinToneScore(r, g, b) ==
    LET y1000 == 299 * r + 587 * g + 114 * b
        cr == 713 * (1000 * r - y1000) + 128000000
        cb == 564 * (1000 * b - y1000) + 128000000
        skinToneY == y1000 >= 80000 /\ y1000 <= 250000
        skinToneCr == cr >= 133000000 /\ cr <= 173000000
        skinToneCb == cb >= 77000000 /\ cb <= 127000000
    IN  IF skinToneY /\ skinToneCr /\ skinToneCb THEN R(8, 10) ELSE R(1, 10)

\* skinToneRegions: the pixels (x, y), x and y multiples of 4, whose score is
\* above the threshold 0.6, in scan order (y outer, x inner).
skinToneRegions(im) ==
    LET nx == (im.width + 3) \div 4
        ny == (im.height + 3) \div 4
        sampled == [k \in 1..(nx * ny) |->
                      LET x == 4 * ((k - 1) % nx)
                          y == 4 * ((k - 1) \div nx)
                          idx == (y * im.width + x) * 4
                      IN  [x |-> x, y |-> y,
                           score |-> calculateSkinToneScore(im.data[idx + 1], im.data[idx + 2],
                                                            im.data[idx + 3])]]
    IN  SelectSeq(sampled, LAMBDA region : RLt(R(6, 10), region.score))

\* The group seeded by regions[index]: the seed, then every region not yet
\* visited whose distance to the seed is <= maxDistance (compared by squares).
GroupOf(regions, maxDistance, index, visited) ==
    LET region == regions[index]
        near == { o \in 1..Len(regions) :
                    /\ o \notin visited
                    /\ o # index
                    /\ (region.x - regions[o].x) * (region.x - regions[o].x)
                        + (region.y - regions[o].y) * (region.y - regions[o].y)
                            <= maxDistance * maxDistance }
        members == <<index>> \o SelectSeq([o \in 1..Len(regions) |-> o], LAMBDA o : o \in near)
        xs == { regions[members[m]].x : m \in 1..Len(members) }
        ys == { regions[members[m]].y : m \in 1..Len(members) }
        minX == CHOOSE v \in xs : \A u \in xs : v <= u
        maxX == CHOOSE v \in xs : \A u \in xs : v >= u
        minY == CHOOSE v \in ys : \A u \in ys : v <= u
        maxY == CHOOSE v \in ys : \A u \in ys : v >= u
        totalScore == RSum([m \in 1..Len(members) |-> regions[members[m]].score])
    IN  [members |-> members,
         regions |-> [m \in 1..Len(members) |-> regions[members[m]]],
         center |-> [x |-> R(minX + maxX, 2), y |-> R(minY + maxY, 2)],
         bounds |-> [minX |-> minX, minY |-> minY, maxX |-> maxX, maxY |-> maxY],
         totalScore |-> totalScore,
         averageScore |-> RDiv(totalScore, I(Len(members)))]

\* regions.forEach in which only the seed of a group is marked visited.
RECURSIVE GroupsFrom_seedOnly(_, _, _, _)
GroupsFrom_seedOnly(regions, maxDistance, index, visited) ==
    IF index > Len(regions) THEN <<>>
    ELSE IF index \in visited THEN GroupsFrom_seedOnly(regions, maxDistance, index + 1, visited)
    ELSE <<GroupOf(regions, maxDistance, index, visited)>>
         \o GroupsFrom_seedOnly(regions, maxDistance, index + 1, visited \cup {index})

\* regions.forEach from index on, with the set of indexes visited so far.
RECURSIVE GroupsFrom(_, _, _, _)
GroupsFrom(regions, maxDistance, index, visited) ==
    IF index > Len(regions) THEN <<>>
    ELSE IF index \in visited THEN GroupsFrom(regions, maxDistance, index + 1, visited)
    ELSE <<GroupOf(regions, maxDistance, index, visited)>>
         \o GroupsFrom(regions, maxDistance, index + 1,
                       visited \cup { GroupOf(regions, maxDistance, index, visited).members[m]
                                        : m \in 1..Len(GroupOf(regions, maxDistance, index,
                                                              visited).members) })

\* The groups, without the list of indexes the model keeps with each.
groupRegions(regions, maxDistance) ==
    LET groups == GroupsFrom(regions, maxDistance, 1, {})
    IN  [k \in 1..Len(groups) |->
            [regions |-> groups[k].regions, center |-> groups[k].center,
             bounds |-> groups[k].bounds, totalScore |-> groups[k].totalScore,
             averageScore |-> groups[k].averageScore]]

calculateFocusScore(im) ==
    R(CountAbove(Advanced_detectEdges(im), 30), im.width * im.height)

\* 10000 cos(angle) for angle = 0, 5, ..., 90 degrees.
cosTable ==
    <<10000, 9962, 9848, 9659, 9397, 9063, 8660, 8192, 7660, 7071,
      6428, 5736, 5000, 4226, 3420, 2588, 1736, 872, 0>>

\* 10000 Math.cos(angle * Math.PI / 180) for a multiple of 5 within 0..180.
Cos10000(angle) ==
    IF angle <= 90 THEN cosTable[(angle \div 5) + 1] ELSE -cosTable[((180 - angle) \div 5) + 1]

\* 10000 Math.sin(angle * Math.PI / 180) for a multiple of 5 within 0..180.
Sin10000(angle) == cosTable[(Abs(90 - angle) \div 5) + 1]

\* votes of the candidate (angle, distance): the pixels (x, y), x and y even,
\* with an edge > 20 whose x cos(angle) + y sin(angle) is within 5 of distance.
Votes(im, edges, angle, distance) ==
    Cardinality({ c \in (0..((im.width - 1) \div 2)) \X (0..((im.height - 1) \div 2)) :
        /\ EdgeGT(edges[2 * c[2] * im.width + 2 * c[1] + 1], 20)
        /\ Abs(2 * c[1] * Cos10000(angle) + 2 * c[2] * Sin10000(angle) - 10000 * distance)
            < 50000 })

VotesGT(a, b) == a.votes > b.votes

\* lines.sort((a, b) => b.votes - a.votes)
SortLines(lines) == SortDesc(lines, { p \in Pairs(lines) : VotesGT(lines[p[1]], lines[p[2]]) })

\* if (votes > 50) lines.push({ angle, distance, votes }), over the tallies in
\* loop order; then the candidates in the order angle = 0, 5, ..., 175 and, for
\* each, distance = 0, 10, ... < sqrt(width^2 + height^2).
KeepLines(all) == SelectSeq(all, LAMBDA line : line.votes > 50)

LineCandidates(im, edges) ==
    LET nd == 1 + (ISqrt(im.width * im.width + im.height * im.height - 1) \div 10)
        all == [k \in 1..(36 * nd) |->
                  LET angle == 5 * ((k - 1) \div nd)
                      distance == 10 * ((k - 1) % nd)
                  IN  [angle |-> angle, distance |-> distance,
                       votes |-> Votes(im, edges, angle, distance)]]
    IN  KeepLines(all)

\* The result for the sorted lines.
LeadingLines(sorted) ==
    [lines |-> Slice0(sorted, 5),
     score |-> IF Len(sorted) > 0 THEN RMin(R(sorted[1].votes, 100), I(1)) ELSE I(0)]

detectLeadingLines(im) == LeadingLines(SortLines(LineCandidates(im, Advanced_detectEdges(im))))

\* The composition object for its three parts.
Composition(symmetryScore, balanceScore, leadingLines) ==
    [symmetry |-> symmetryScore,
     balance |-> balanceScore,
     leadingLines |-> leadingLines,
     overallScore |-> RDiv(RAdd(RAdd(symmetryScore, balanceScore), leadingLines.score), I(3))]

Advanced_analyzeComposition(im) ==
    Composition(calculateSymmetry(im), calculateBalance(im), detectLeadingLines(im))

\* subjectGroups.map(group => ({ center, bounds, confidence, type }))
Subjects(subjectGroups) ==
    [k \in 1..Len(subjectGroups) |->
        [center |-> subjectGroups[k].center,
         bounds |-> subjectGroups[k].bounds,
         confidence |-> subjectGroups[k].averageScore,
         type |-> "face"]]

detectSubjects(im) ==
    [subjects |-> Subjects(groupRegions(skinToneRegions(im), 50)),
     focusScore |-> calculateFocusScore(im),
     compositionAnalysis |-> Advanced_analyzeComposition(im)]

-----------------------------------------------------------------------------
(* CreativeFilters.applyColorGrading and SocialMediaPresets (advanced-tools.js) *)

\* A store into a Uint8ClampedArray: the number is clamped to 0..255 and
\* rounded to the nearest integer, a tie to the even one.
ToUint8Clamp(a) ==
    IF IsNaN(a) THEN 0
    ELSE IF RLt(a, I(0)) THEN 0
    ELSE IF RLt(I(255), a) THEN 255
    ELSE LET f == Floor(a)
             twice == RMul(I(2), RSub(a, I(f)))
         IN  IF RLt(twice, I(1)) THEN f
             ELSE IF RLt(I(1), twice) THEN f + 1
             ELSE IF f % 2 = 0 THEN f ELSE f + 1

colorGradingPresets ==
    [cinematic |-> [r |-> R(11, 10), g |-> R(9, 10), b |-> R(8, 10), saturation |-> R(12, 10)],
     warm |-> [r |-> R(12, 10), g |-> R(11, 10), b |-> R(8, 10), saturation |-> R(11, 10)],
     cool |-> [r |-> R(8, 10), g |-> R(9, 10), b |-> R(12, 10), saturation |-> R(11, 10)],
     dramatic |-> [r |-> R(13, 10), g |-> R(7, 10), b |-> R(6, 10), saturation |-> R(14, 10)],
     vintage |-> [r |-> R(11, 10), g |-> R(8, 10), b |-> R(7, 10), saturation |-> R(8, 10)]]

\* Settings that leave the colours of an unknown preset as they are.
GradingSettings_identity(preset) ==
    IF preset \in DOMAIN colorGradingPresets
    THEN colorGradingPresets[preset]
    ELSE [r |-> I(1), g |-> I(1), b |-> I(1), saturation |-> I(1)]

\* presets[preset] || presets.cinematic
GradingSettings(preset) ==
    IF preset \in DOMAIN colorGradingPresets
    THEN colorGradingPresets[preset]
    ELSE colorGradingPresets["cinematic"]

\* The three channels of one pixel after the multipliers and the saturation.
GradedPixel(r0, g0, b0, settings) ==
    LET r == RMul(I(r0), settings.r)
        g == RMul(I(g0), settings.g)
        b == RMul(I(b0), settings.b)
        luminance == RAdd(RAdd(RMul(R(299, 1000), r), RMul(R(587, 1000), g)),
                          RMul(R(114, 1000), b))
        channel(v) == ToUint8Clamp(RMax(I(0), RMin(I(255),
                          RAdd(luminance, RMul(RSub(v, luminance), settings.saturation)))))
    IN  <<channel(r), channel(g), channel(b)>>

\* The buffer after the loop over its pixels; alpha is left as it was.
GradedWith(im, settings) ==
    [im EXCEPT !.data =
        [i \in 1..Len(im.data) |->
            LET p == 4 * ((i - 1) \div 4)
            IN  IF i % 4 = 0 THEN im.data[i]
                ELSE GradedPixel(im.data[p + 1], im.data[p + 2], im.data[p + 3],
                                 settings)[((i - 1) % 4) + 1]]]

applyColorGrading(im, preset) == GradedWith(im, GradingSettings(preset))

getPresets ==
    [instagram |-> [square |-> [width |-> I(1), height |-> I(1)],
                    portrait |-> [width |-> I(4), height |-> I(5)],
                    landscape |-> [width |-> R(191, 100), height |-> I(1)],
                    story |-> [width |-> I(9), height |-> I(16)]],
     facebook |-> [post |-> [width |-> R(191, 100), height |-> I(1)],
                   cover |-> [width |-> R(27, 10), height |-> I(1)],
                   profile |-> [width |-> I(1), height |-> I(1)]],
     twitter |-> [post |-> [width |-> I(16), height |-> I(9)],
                  header |-> [width |-> I(3), height |-> I(1)],
                  profile |-> [width |-> I(1), height |-> I(1)]],
     linkedin |-> [post |-> [width |-> R(191, 100), height |-> I(1)],
                   cover |-> [width |-> I(4), height |-> I(1)],
                   profile |-> [width |-> I(1), height |-> I(1)]],
     youtube |-> [thumbnail |-> [width |-> I(16), height |-> I(9)],
                  banner |-> [width |-> R(62, 10), height |-> I(1)]]]

\* presets[platform]?.[format] is defined.
HasPreset(platform, format) ==
    platform \in DOMAIN getPresets /\ format \in DOMAIN getPresets[platform]

\* The crop selection of the preset's ratio, centred on the old one.
PresetCrop(cropSelection, preset) ==
    LET currentRatio == R(cropSelection.width, cropSelection.height)
        targetRatio == RDiv(preset.width, preset.height)
        wide == RLt(targetRatio, currentRatio)
        newWidth == IF wide THEN I(cropSelection.width)
                    ELSE RMul(I(cropSelection.height), targetRatio)
        newHeight == IF wide THEN RDiv(I(cropSelection.width), targetRatio)
                     ELSE I(cropSelection.height)
    IN  [x |-> RAdd(I(cropSelection.x), RDiv(RSub(I(cropSelection.width), newWidth), I(2))),
         y |-> RAdd(I(cropSelection.y), RDiv(RSub(I(cropSelection.height), newHeight), I(2))),
         width |-> newWidth,
         height |-> newHeight]

applyPreset(cropSelection, platform, format) ==
    IF ~HasPreset(platform, format) THEN cropSelection
    ELSE PresetCrop(cropSelection, getPresets[platform][format])

-----------------------------------------------------------------------------
(* ExportManager (src/js/export-manager.js) *)

\* this.supportedFormats: the extension of each format.
supportedFormats == [png |-> ".png", jpg |-> ".jpg", webp |-> ".webp", gif |-> ".gif"]

exportPresets ==
    [web |-> [formats |-> <<"webp", "jpg">>,
              sizes |-> <<[width |-> 1920, height |-> 1080, suffix |-> "_large"],
                          [width |-> 1280, height |-> 720, suffix |-> "_medium"],
                          [width |-> 640, height |-> 360, suffix |-> "_small"]>>,
              quality |-> R(8, 10)],
     print |-> [formats |-> <<"png", "tiff">>,
                sizes |-> <<[width |-> 3000, height |-> 2000, suffix |-> "_print"],
                            [width |-> 1500, height |-> 1000, suffix |-> "_preview"]>>,
                quality |-> I(1)],
     social |-> [formats |-> <<"jpg">>,
                 sizes |-> <<[width |-> 1080, height |-> 1080, suffix |-> "_instagram"],
                             [width |-> 1200, height |-> 630, suffix |-> "_facebook"],
                             [width |-> 1500, height |-> 500, suffix |-> "_twitter"]>>,
                 quality |-> R(9, 10)]]

\* The size of the export canvas for a requested width and height, both set,
\* with preserveAspectRatio: a canvas keeps the integer part of a size.
createExportCanvas(sourceCanvas, width, height) ==
    IF sourceCanvas.width * height > width * sourceCanvas.height
    THEN [width |-> width, height |-> (width * sourceCanvas.height) \div sourceCanvas.width]
    ELSE [width |-> (height * sourceCanvas.width) \div sourceCanvas.height, height |-> height]

\* `${baseFilename}-${timestamp}${extension}`, kept as its three parts.
generateFilename(baseFilename, timestamp, format) ==
    [base |-> baseFilename, timestamp |-> timestamp,
     extension |-> IF format \in DOMAIN supportedFormats THEN supportedFormats[format] ELSE ".png"]

\* What exportImage resolves to; canvasToBlob rejects an unsupported format and
\* the rejection is caught.  The blob is not modelled.
exportImage(canvas, format, filename, width, height, timestamp) ==
    IF format \notin DOMAIN supportedFormats
    THEN [success |-> FALSE, error |-> "Unsupported format", format |-> format]
    ELSE [success |-> TRUE,
          filename |-> generateFilename(filename, timestamp, format),
          size |-> createExportCanvas(canvas, width, height),
          format |-> format]

\* The results of the two loops, formats outer and sizes inner.
PresetResults(canvas, presetConfig, filename, timestamp) ==
    [k \in 1..(Len(presetConfig.formats) * Len(presetConfig.sizes)) |->
        LET format == presetConfig.formats[((k - 1) \div Len(presetConfig.sizes)) + 1]
            size == presetConfig.sizes[((k - 1) % Len(presetConfig.sizes)) + 1]
        IN  exportImage(canvas, format, <<filename, size.suffix>>, size.width, size.height,
                        timestamp)]

exportWithPreset(canvas, preset, filename, timestamp) ==
    IF preset \notin DOMAIN exportPresets
    THEN [error |-> "Unknown preset", preset |-> preset]
    ELSE PresetResults(canvas, exportPresets[preset], filename, timestamp)

\* The entry addToHistory is handed for a result.
HistoryEntry(result, timestamp) ==
    [filename |-> result.filename, format |-> result.format, size |-> result.size,
     timestamp |-> timestamp]

\* exportHistory after addToHistory for each successful result in turn: each
\* is put in front and the list is cut to 50 entries.
RECURSIVE HistoryAfter_uncut(_, _, _)
HistoryAfter_uncut(history, results, timestamp) ==
    IF results = <<>> THEN history
    ELSE HistoryAfter_uncut(IF Head(results).success
                            THEN <<HistoryEntry(Head(results), timestamp)>> \o history
                            ELSE history,
                            Tail(results), timestamp)

RECURSIVE HistoryAfter(_, _, _)
HistoryAfter(history, results, timestamp) ==
    IF results = <<>> THEN history
    ELSE HistoryAfter(IF Head(results).success
                      THEN Slice0(<<HistoryEntry(Head(results), timestamp)>> \o history, 50)
                      ELSE history,
                      Tail(results), timestamp)

-----------------------------------------------------------------------------
(* FrameGenAI: the crop selection (src/js/app.js) *)

\* The fields the constructor sets, with an image loaded or not.  The null of
\* activeFilters.colorGrading is kept as "", the value of the select when no
\* preset is chosen: the code only reads it as a condition.
FrameGenAI(loaded) ==
    [currentImage |-> loaded,
     cropSelection |-> Null,
     isDragging |-> FALSE,
     dragStart |-> [x |-> 0, y |-> 0],
     aspectRatio |-> "free",
     cropQuality |-> "high",
     activeFilters |-> [vintage |-> FALSE, dramatic |-> FALSE, colorGrading |-> ""],
     batchQueue |-> <<>>,
     isBatchProcessing |-> FALSE]

startCropSelection(a, x, y) ==
    [a EXCEPT !.isDragging = TRUE,
              !.dragStart = [x |-> x, y |-> y],
              !.cropSelection = [x |-> x, y |-> y, width |-> 0, height |-> 0]]

\* The class defines updateCropSelection twice; the second definition, with an
\* empty body, is the method of the instance, whatever arguments it is called
\* with.
updateCropSelection(a, x, y) == a

finishCropSelection(a) ==
    IF a.cropSelection # Null /\ a.cropSelection.width > 10 /\ a.cropSelection.height > 10
    THEN [a EXCEPT !.isDragging = FALSE]
    ELSE [a EXCEPT !.isDragging = FALSE, !.cropSelection = Null]

-----------------------------------------------------------------------------
(* CreativeFilters.applyVintageEffect and applyDramaticLighting, with their  *)
(* default options, and BatchProcessor (advanced-tools.js)                   *)

\* distance / maxDistance of pixel (x, y) from the centre, as the floor of the
\* root at 4 decimals.
VignetteDistance(im, x, y) ==
    LET d2 == (2 * x - im.width) * (2 * x - im.width) + (2 * y - im.height) * (2 * y - im.height)
        m2 == im.width * im.width + im.height * im.height
    IN  R(ISqrt((d2 * 100000000) \div m2), 10000)

\* One channel through the three stores into data: sepia (0.3), vignette (0.4)
\* and grain (0.2); random is the value of Math.random() for the pixel.
VintageChannel(v, sepiaValue, distance, random) ==
    LET toned == ToUint8Clamp(RMin(I(255), RAdd(RMul(I(v), R(7, 10)), RMul(sepiaValue, R(3, 10)))))
        vignetteFactor == RSub(I(1), RMul(distance, R(4, 10)))
        shaded == ToUint8Clamp(RMul(I(toned), vignetteFactor))
        grainValue == RMul(RSub(random, R(1, 2)), I(10))
    IN  ToUint8Clamp(RMax(I(0), RMin(I(255), RAdd(I(shaded), grainValue))))

\* The three channels of one pixel.
VintagePixel(r, g, b, distance, random) ==
    LET newR == RAdd(RAdd(RMul(I(r), R(393, 1000)), RMul(I(g), R(769, 1000))), RMul(I(b), R(189, 1000)))
        newG == RAdd(RAdd(RMul(I(r), R(349, 1000)), RMul(I(g), R(686, 1000))), RMul(I(b), R(168, 1000)))
        newB == RAdd(RAdd(RMul(I(r), R(272, 1000)), RMul(I(g), R(534, 1000))), RMul(I(b), R(131, 1000)))
    IN  <<VintageChannel(r, newR, distance, random),
          VintageChannel(g, newG, distance, random),
          VintageChannel(b, newB, distance, random)>>

\* randoms[p + 1] is the value Math.random() gives for pixel p.
applyVintageEffect(im, randoms) ==
    [im EXCEPT !.data =
        [i \in 1..Len(im.data) |->
            LET pxl == (i - 1) \div 4
            IN  IF i % 4 = 0 THEN im.data[i]
                ELSE VintagePixel(im.data[4 * pxl + 1], im.data[4 * pxl + 2], im.data[4 * pxl + 3],
                                  VignetteDistance(im, pxl % im.width, pxl \div im.width),
                                  randoms[pxl + 1])[((i - 1) % 4) + 1]]]

\* The three channels of one pixel: contrast 1.3, brightness 0.1, highlights
\* 0.2 and shadows -0.3.
DramaticPixel(r, g, b) ==
    LET luminance == R(299 * r + 587 * g + 114 * b, 1000)
        lift == IF RLt(I(128), luminance) THEN R(2 * 255, 10) ELSE R(-3 * 255, 10)
        channel(v) ==
            ToUint8Clamp(RMax(I(0), RMin(I(255),
                RAdd(RAdd(RAdd(RMul(I(v - 128), R(13, 10)), I(128)), R(255, 10)), lift))))
    IN  <<channel(r), channel(g), channel(b)>>

applyDramaticLighting(im) ==
    [im EXCEPT !.data =
        [i \in 1..Len(im.data) |->
            LET p == 4 * ((i - 1) \div 4)
            IN  IF i % 4 = 0 THEN im.data[i]
                ELSE DramaticPixel(im.data[p + 1], im.data[p + 2], im.data[p + 3])[((i - 1) % 4) + 1]]]

\* A property that holds a boolean when defined, as a condition reads it:
\* undefined is taken as false.
Flag(settings, name) == name \in DOMAIN settings /\ settings[name]

\* A property that holds a string, null or undefined; "" stands for the three
\* values a condition takes as false.
Text(settings, name) == IF name \in DOMAIN settings THEN settings[name] ELSE ""

\* The image data after the filters that the three flags select, in the order
\* vintage, dramatic, colour grading.
Filtered(im, vintage, dramatic, colorGrading, colorGradingPreset, randoms) ==
    LET first == IF vintage THEN applyVintageEffect(im, randoms) ELSE im
        second == IF dramatic THEN applyDramaticLighting(first) ELSE first
    IN  IF colorGrading # ""
        THEN applyColorGrading(second, IF colorGradingPreset = "" THEN "cinematic"
                                       ELSE colorGradingPreset)
        ELSE second

\* What the blob holds: the image of the file after the filters that settings
\* selects.
processImage(imageFile, settings, randoms) ==
    Filtered(imageFile.image,
             Flag(settings, "vintage"), Flag(settings, "dramatic"),
             Text(settings, "colorGrading"), Text(settings, "colorGradingPreset"),
             randoms)

\* randoms[i] holds the values of Math.random() for image i.
processBatch(images, settings, randoms) ==
    [i \in 1..Len(images) |->
        [original |-> images[i].name,
         processed |-> processImage(images[i], settings, randoms[i]),
         settings |-> settings]]

-----------------------------------------------------------------------------
(* GestureController (gesture-controller.js).  A controller is a record of   *)
(* the instance's fields together with its page: the clock (Date.now()),     *)
(* the pending timers of setTimeout and the calls of onGestureUpdate so far. *)
(* The touches Map is a set of entries, one per identifier; an entry without *)
(* lastTapTime or longPressTimer (undefined, both read as falsy) has 0.      *)
(* Angles are exact to a hundredth of a degree.                              *)

GestureConfig ==
    [minScale |-> R(1, 2), maxScale |-> I(3),
     minRotation |-> I(-180), maxRotation |-> I(180),
     panThreshold |-> 10, zoomThreshold |-> R(1, 10), rotationThreshold |-> I(5),
     doubleTapDelay |-> 300, longPressDelay |-> 500]

\* The fields after the constructor, on a page whose clock reads now.
GestureController(now) ==
    [isEnabled |-> TRUE,
     gestureState |->
        [isPanning |-> FALSE, isZooming |-> FALSE, isRotating |-> FALSE,
         scale |-> I(1), rotation |-> I(0), translateX |-> I(0), translateY |-> I(0),
         lastScale |-> I(1), lastRotation |-> I(0),
         lastTranslateX |-> I(0), lastTranslateY |-> I(0)],
     touches |-> {},
     touchStartTime |-> 0,
     touchStartDistance |-> I(0),
     touchStartAngle |-> I(0),
     mouseStartX |-> NaN,
     mouseStartY |-> NaN,
     cursor |-> "",
     now |-> now,
     timers |-> {},
     nextTimer |-> 1,
     calls |-> <<>>]

\* this.touches.has / get / set / delete
HasTouch(touches, identifier) == \E t \in touches : t.identifier = identifier

GetTouch(touches, identifier) == CHOOSE t \in touches : t.identifier = identifier

SetTouch(touches, entry) ==
    { t \in touches : t.identifier # entry.identifier } \cup { entry }

\* clearTimeout(id); the id 0 stands for no timer.
ClearTimeout(timers, id) == { t \in timers : t.id # id }

\* Math.max(lo, Math.min(hi, v))
Clamp_none(lo, hi, v) == v

Clamp(lo, hi, v) == RMax(lo, RMin(hi, v))

getDistance(touch1, touch2) ==
    LET dx == touch1.clientX - touch2.clientX
        dy == touch1.clientY - touch2.clientY
    IN  I(ISqrt(dx * dx + dy * dy))

\* Math.atan2(dy, dx) * 180 / Math.PI for the offsets between two of Points.
Atan2Degrees(dy, dx) ==
    IF dy = 0 THEN (IF dx < 0 THEN I(180) ELSE I(0))
    ELSE IF dx = 0 THEN (IF dy > 0 THEN I(90) ELSE I(-90))
    ELSE IF dy > 0 THEN (IF dx > 0 THEN R(5313, 100) ELSE R(12687, 100))
    ELSE (IF dx > 0 THEN R(-5313, 100) ELSE R(-12687, 100))

getAngle(touch1, touch2) ==
    Atan2Degrees(touch2.clientY - touch1.clientY, touch2.clientX - touch1.clientX)

onGestureUpdate(g, type, identifier) ==
    [g EXCEPT !.calls = Append(@, [type |-> type, touch |-> identifier])]

updateTransform(g) == onGestureUpdate(g, "transform", -1)

handleDoubleTap(g, touch) ==
    onGestureUpdate(
        updateTransform([g EXCEPT !.gestureState.scale = I(1),
                                  !.gestureState.rotation = I(0),
                                  !.gestureState.translateX = I(0),
                                  !.gestureState.translateY = I(0)]),
        "doubleTap", touch.identifier)

handleLongPress(g, touch) == onGestureUpdate(g, "longPress", touch.identifier)

\* A touch that is not in the Map is ignored; this is so for the remaining
\* touch handleTouchEnd passes, which is an entry of the Map and has no
\* identifier (identifier -1 here).
handleSingleTouchStart(g, touch) ==
    IF ~HasTouch(g.touches, touch.identifier) THEN g
    ELSE LET touchData == GetTouch(g.touches, touch.identifier)
         IN  IF g.now - touchData.lastTapTime < GestureConfig.doubleTapDelay
             THEN handleDoubleTap(g, touch)
             ELSE [g EXCEPT
                     !.touches = SetTouch(@, [touchData EXCEPT !.lastTapTime = g.now,
                                                               !.longPressTimer = g.nextTimer]),
                     !.gestureState.isPanning = TRUE,
                     !.gestureState.lastTranslateX = g.gestureState.translateX,
                     !.gestureState.lastTranslateY = g.gestureState.translateY,
                     !.timers = @ \cup { [id |-> g.nextTimer,
                                          due |-> g.now + GestureConfig.longPressDelay,
                                          touch |-> touch.identifier] },
                     !.nextTimer = @ + 1]

handleSingleTouchMove(g, touch) ==
    IF ~HasTouch(g.touches, touch.identifier) \/ ~g.gestureState.isPanning THEN g
    ELSE LET touchData == GetTouch(g.touches, touch.identifier)
             cleared == [g EXCEPT
                           !.timers = ClearTimeout(@, touchData.longPressTimer),
                           !.touches = SetTouch(@, [touchData EXCEPT !.longPressTimer = 0])]
             deltaX == touch.clientX - touchData.startX
             deltaY == touch.clientY - touchData.startY
         IN  IF deltaX * deltaX + deltaY * deltaY
                    < GestureConfig.panThreshold * GestureConfig.panThreshold
             THEN cleared
             ELSE updateTransform(
                    [cleared EXCEPT
                       !.gestureState.translateX =
                           RAdd(g.gestureState.lastTranslateX, I(deltaX)),
                       !.gestureState.translateY =
                           RAdd(g.gestureState.lastTranslateY, I(deltaY))])

handleMultiTouchStart(g, touches) ==
    IF Len(touches) # 2 THEN g
    ELSE [g EXCEPT
            !.touchStartDistance = getDistance(touches[1], touches[2]),
            !.touchStartAngle = getAngle(touches[1], touches[2]),
            !.gestureState.lastScale = g.gestureState.scale,
            !.gestureState.lastRotation = g.gestureState.rotation,
            !.gestureState.lastTranslateX = g.gestureState.translateX,
            !.gestureState.lastTranslateY = g.gestureState.translateY,
            !.gestureState.isZooming = TRUE,
            !.gestureState.isRotating = TRUE]

\* The scale handleMultiTouchMove leaves for the fingers' current distance.
ZoomedScale(g, currentDistance) ==
    LET scaleDelta == RDiv(currentDistance, g.touchStartDistance)
        newScale == RMul(g.gestureState.lastScale, scaleDelta)
    IN  IF g.gestureState.isZooming
           /\ RLt(GestureConfig.zoomThreshold, RAbs(RSub(newScale, g.gestureState.scale)))
        THEN Clamp(GestureConfig.minScale, GestureConfig.maxScale, newScale)
        ELSE g.gestureState.scale

\* The rotation handleMultiTouchMove leaves for the fingers' current angle.
TurnedRotation(g, currentAngle) ==
    LET angleDelta == RSub(currentAngle, g.touchStartAngle)
        newRotation == RAdd(g.gestureState.lastRotation, angleDelta)
    IN  IF g.gestureState.isRotating
           /\ RLt(GestureConfig.rotationThreshold, RAbs(angleDelta))
        THEN Clamp(GestureConfig.minRotation, GestureConfig.maxRotation, newRotation)
        ELSE g.gestureState.rotation

handleMultiTouchMove(g, touches) ==
    IF Len(touches) # 2 THEN g
    ELSE LET touch1 == touches[1]
             touch2 == touches[2]
             zoomed == [g EXCEPT
                          !.gestureState.scale = ZoomedScale(g, getDistance(touch1, touch2)),
                          !.gestureState.rotation = TurnedRotation(g, getAngle(touch1, touch2))]
         IN  IF HasTouch(g.touches, touch1.identifier) /\ HasTouch(g.touches, touch2.identifier)
             THEN LET touch1Data == GetTouch(g.touches, touch1.identifier)
                      touch2Data == GetTouch(g.touches, touch2.identifier)
                      deltaX == RSub(R(touch1.clientX + touch2.clientX, 2),
                                     R(touch1Data.startX + touch2Data.startX, 2))
                      deltaY == RSub(R(touch1.clientY + touch2.clientY, 2),
                                     R(touch1Data.startY + touch2Data.startY, 2))
                  IN  updateTransform(
                        [zoomed EXCEPT
                           !.gestureState.translateX =
                               RAdd(g.gestureState.lastTranslateX, deltaX),
                           !.gestureState.translateY =
                               RAdd(g.gestureState.lastTranslateY, deltaY)])
             ELSE updateTransform(zoomed)

\* The timers of the touches still in the Map are cleared.
handleGestureEnd(g) ==
    [g EXCEPT
       !.gestureState.isPanning = FALSE,
       !.gestureState.isZooming = FALSE,
       !.gestureState.isRotating = FALSE,
       !.timers = { t \in @ : \A touch \in g.touches : touch.longPressTimer # t.id },
       !.touches = { [touch EXCEPT !.longPressTimer = 0] : touch \in @ }]

\* The Map entry of a touch of event.touches at a touchstart.
TouchEntry(touch, now) ==
    [identifier |-> touch.identifier,
     x |-> touch.clientX, y |-> touch.clientY,
     startX |-> touch.clientX, startY |-> touch.clientY,
     startTime |-> now, lastTapTime |-> 0, longPressTimer |-> 0]

Touched(touches) == { touches[k] : k \in DOMAIN touches }

handleTouchStart(g, touches) ==
    IF ~g.isEnabled THEN g
    ELSE LET tracked ==
                [g EXCEPT
                   !.touchStartTime = g.now,
                   !.touches =
                       { t \in @ : \A touch \in Touched(touches) :
                                       touch.identifier # t.identifier }
                       \cup { TouchEntry(touch, g.now) : touch \in Touched(touches) }]
         IN  IF Len(touches) = 1 THEN handleSingleTouchStart(tracked, touches[1])
             ELSE IF Len(touches) = 2 THEN handleMultiTouchStart(tracked, touches)
             ELSE tracked

\* A Map entry with the position of its touch of event.touches, if it has one.
Positioned(t, touches) ==
    IF \E touch \in Touched(touches) : touch.identifier = t.identifier
    THEN LET touch == CHOOSE touch \in Touched(touches) : touch.identifier = t.identifier
         IN  [t EXCEPT !.x = touch.clientX, !.y = touch.clientY]
    ELSE t

handleTouchMove(g, touches) ==
    IF ~g.isEnabled THEN g
    ELSE LET placed == [g EXCEPT !.touches = { Positioned(t, touches) : t \in @ }]
         IN  IF Len(touches) = 1 THEN handleSingleTouchMove(placed, touches[1])
             ELSE IF Len(touches) = 2 THEN handleMultiTouchMove(placed, touches)
             ELSE placed

\* touches is event.changedTouches.
handleTouchEnd(g, touches) ==
    IF ~g.isEnabled THEN g
    ELSE LET removed ==
                [g EXCEPT !.touches =
                    { t \in @ : \A touch \in Touched(touches) :
                                    touch.identifier # t.identifier }]
         IN  IF removed.touches = {} THEN handleGestureEnd(removed)
             ELSE IF Cardinality(removed.touches) = 1
             THEN handleSingleTouchStart(removed,
                                         [identifier |-> -1, clientX |-> 0, clientY |-> 0])
             ELSE removed

handleMouseDown(g, clientX, clientY) ==
    IF ~g.isEnabled THEN g
    ELSE [g EXCEPT
            !.gestureState.isPanning = TRUE,
            !.gestureState.lastTranslateX = g.gestureState.translateX,
            !.gestureState.lastTranslateY = g.gestureState.translateY,
            !.mouseStartX = I(clientX),
            !.mouseStartY = I(clientY),
            !.cursor = "grabbing"]

handleMouseMove(g, clientX, clientY) ==
    IF ~g.isEnabled \/ ~g.gestureState.isPanning THEN g
    ELSE updateTransform(
           [g EXCEPT
              !.gestureState.translateX =
                  RAdd(g.gestureState.lastTranslateX, RSub(I(clientX), g.mouseStartX)),
              !.gestureState.translateY =
                  RAdd(g.gestureState.lastTranslateY, RSub(I(clientY), g.mouseStartY))])

handleMouseUp(g) ==
    IF ~g.isEnabled THEN g
    ELSE [g EXCEPT !.gestureState.isPanning = FALSE, !.cursor = "grab"]

handleWheel(g, deltaY) ==
    IF ~g.isEnabled THEN g
    ELSE LET delta == IF deltaY > 0 THEN R(9, 10) ELSE R(11, 10)
             newScale == RMul(g.gestureState.scale, delta)
         IN  updateTransform(
               [g EXCEPT !.gestureState.scale =
                   Clamp(GestureConfig.minScale, GestureConfig.maxScale, newScale)])

GestureController_reset(g) ==
    updateTransform([g EXCEPT !.gestureState.scale = I(1),
                              !.gestureState.rotation = I(0),
                              !.gestureState.translateX = I(0),
                              !.gestureState.translateY = I(0)])

setEnabled(g, enabled) == [g EXCEPT !.isEnabled = enabled]

-----------------------------------------------------------------------------
(* CropGestureController (gesture-controller.js).  The canvas is at the     *)
(* origin of the client area; a null resizeHandle is "".                     *)

CropGestureController(cropSelection) ==
    [cropSelection |-> cropSelection,
     isResizing |-> FALSE,
     resizeHandle |-> "",
     isMoving |-> FALSE,
     startPoint |-> [x |-> 0, y |-> 0],
     startCrop |-> Null,
     updates |-> 0]

\* The corners in the order of Object.entries(handles).
CropHandles(crop) ==
    << [handle |-> "nw", x |-> crop.x, y |-> crop.y],
       [handle |-> "ne", x |-> crop.x + crop.width, y |-> crop.y],
       [handle |-> "sw", x |-> crop.x, y |-> crop.y + crop.height],
       [handle |-> "se", x |-> crop.x + crop.width, y |-> crop.y + crop.height] >>

getResizeHandle(c, x, y) ==
    IF c.cropSelection = Null THEN ""
    ELSE LET handles == CropHandles(c.cropSelection)
             near == { k \in DOMAIN handles :
                         Abs(x - handles[k].x) <= 20 /\ Abs(y - handles[k].y) <= 20 }
         IN  IF near = {} THEN ""
             ELSE handles[CHOOSE k \in near : \A j \in near : k <= j].handle

isInsideCrop(c, x, y) ==
    IF c.cropSelection = Null THEN FALSE
    ELSE /\ x >= c.cropSelection.x
         /\ x <= c.cropSelection.x + c.cropSelection.width
         /\ y >= c.cropSelection.y
         /\ y <= c.cropSelection.y + c.cropSelection.height

handleCropStart(c, x, y) ==
    IF c.cropSelection = Null THEN c
    ELSE LET handle == getResizeHandle(c, x, y)
         IN  [c EXCEPT
                !.isResizing = IF handle # "" THEN TRUE ELSE @,
                !.resizeHandle = IF handle # "" THEN handle ELSE @,
                !.isMoving = IF handle = "" /\ isInsideCrop(c, x, y) THEN TRUE ELSE @,
                !.startPoint = [x |-> x, y |-> y],
                !.startCrop = c.cropSelection]

\* The crop for the handle that is dragged.
ResizedCrop(startCrop, resizeHandle, deltaX, deltaY) ==
    IF resizeHandle = "nw"
    THEN [x |-> startCrop.x + deltaX, y |-> startCrop.y + deltaY,
          width |-> startCrop.width - deltaX, height |-> startCrop.height - deltaY]
    ELSE IF resizeHandle = "ne"
    THEN [startCrop EXCEPT !.y = @ + deltaY, !.width = @ + deltaX, !.height = @ - deltaY]
    ELSE IF resizeHandle = "sw"
    THEN [startCrop EXCEPT !.x = @ + deltaX, !.width = @ - deltaX, !.height = @ + deltaY]
    ELSE IF resizeHandle = "se"
    THEN [startCrop EXCEPT !.width = @ + deltaX, !.height = @ + deltaY]
    ELSE startCrop

resizeCrop(c, deltaX, deltaY) ==
    IF c.startCrop = Null \/ c.resizeHandle = "" THEN c
    ELSE LET newCrop == ResizedCrop(c.startCrop, c.resizeHandle, deltaX, deltaY)
         IN  IF newCrop.width > 20 /\ newCrop.height > 20
             THEN [c EXCEPT !.cropSelection = newCrop]
             ELSE c

moveCrop(c, deltaX, deltaY) ==
    IF c.startCrop = Null THEN c
    ELSE [c EXCEPT !.cropSelection.x = c.startCrop.x + deltaX,
                   !.cropSelection.y = c.startCrop.y + deltaY]

\* onCropUpdate is called after the crop was resized or moved, or left alone.
handleCropMove(c, x, y) ==
    IF c.startCrop = Null THEN c
    ELSE LET deltaX == x - c.startPoint.x
             deltaY == y - c.startPoint.y
             moved == IF c.isResizing THEN resizeCrop(c, deltaX, deltaY)
                      ELSE IF c.isMoving THEN moveCrop(c, deltaX, deltaY)
                      ELSE c
         IN  [moved EXCEPT !.updates = @ + 1]

handleCropEnd(c) ==
    [c EXCEPT !.isResizing = FALSE, !.isMoving = FALSE,
              !.resizeHandle = "", !.startCrop = Null]

\* A touchstart or touchmove with touches fingers down, the first at (x, y).
handleCropTouchStart(c, touches, x, y) ==
    IF touches = 1 THEN handleCropStart(c, x, y) ELSE c

handleCropTouchMove(c, touches, x, y) ==
    IF touches = 1 THEN handleCropMove(c, x, y) ELSE c

-----------------------------------------------------------------------------
(* The calls *)

Init ==
    /\ img \in Buffers \cup DiagonalBuffers \cup SkinBuffers
    /\ op = "none"
    /\ arg = Null
    /\ res = Null
    /\ log = <<>>
    /\ exportHistory = <<>>
    /\ app = Null
    /\ gesture = Null

\* One call per behaviour: the operation is applied to the buffer Init drew.
Call(name, a, r) ==
    /\ op = "none"
    /\ op' = name
    /\ arg' = a
    /\ res' = r
    /\ UNCHANGED <<img, log, exportHistory, app, gesture>>

\* The crop selections the interactive surface hands over, in canvas pixels.
CropSelections ==
    { [x |-> 0, y |-> 0, width |-> 2, height |-> 2],
      [x |-> 1, y |-> 0, width |-> 2, height |-> 1],
      [x |-> 0, y |-> 1, width |-> 1, height |-> 3] }

DetectEdges == Call("detectEdges", Null, ImageUtils_detectEdges(img))

AIComposerDetectEdges == Call("AIComposer.detectEdges", Null, AIComposer_detectEdges(img))

AdvancedDetectEdges == Call("AdvancedImageAnalysis.detectEdges", Null, Advanced_detectEdges(img))

FindRegionsOfInterest == Call("findRegionsOfInterest", Null, findRegionsOfInterest(img))

GetDominantColors == Call("getDominantColors", Null, getDominantColors(img, 5))

GetBrightness == Call("getBrightness", Null, getBrightness(img))

GenerateCropSuggestions == Call("generateCropSuggestions", Null, generateCropSuggestions(img))

AnalyzeComposition ==
    \E c \in CropSelections \cup {Null} :
        Call("analyzeComposition", c, analyzeComposition(img, c))

SymmetryAnalysis == Call("symmetryAnalysis", Null, symmetryAnalysis(img, Null))

BalanceAnalysis == Call("balanceAnalysis", Null, balanceAnalysis(img, Null))

GetIntelligentCropSuggestions ==
    Call("getIntelligentCropSuggestions", Null, getIntelligentCropSuggestions(img))

CalculateSymmetry == Call("calculateSymmetry", Null, calculateSymmetry(img))

CalculateBalance == Call("calculateBalance", Null, calculateBalance(img))

\* The canvas sizes the guides are generated for.
CanvasSizes == { 1, 100, 144 }

GenerateFibonacciGrid ==
    \E width \in CanvasSizes, height \in CanvasSizes :
        Call("generateFibonacciGrid", [width |-> width, height |-> height],
             generateFibonacciGrid(width, height))

\* The crop selections whose centre lies on each thirds intersection of a 3 x 3
\* buffer, with the selections above.
ThirdsSelections ==
    CropSelections \cup
    { [x |-> 1, y |-> 0, width |-> 2, height |-> 2],
      [x |-> 0, y |-> 1, width |-> 2, height |-> 2],
      [x |-> 1, y |-> 1, width |-> 2, height |-> 2],
      [x |-> 0, y |-> 0, width |-> 4, height |-> 4] }

RuleOfThirdsAnalysis ==
    \E c \in ThirdsSelections :
        Call("ruleOfThirdsAnalysis", c, ruleOfThirdsAnalysis(img, c))

DetectSubjects == Call("detectSubjects", Null, detectSubjects(img))

Next ==
    \/ DetectEdges
    \/ AIComposerDetectEdges
    \/ AdvancedDetectEdges
    \/ FindRegionsOfInterest
    \/ GetDominantColors
    \/ GetBrightness
    \/ GenerateCropSuggestions
    \/ AnalyzeComposition
    \/ SymmetryAnalysis
    \/ BalanceAnalysis
    \/ GetIntelligentCropSuggestions
    \/ CalculateSymmetry
    \/ CalculateBalance
    \/ GenerateFibonacciGrid
    \/ RuleOfThirdsAnalysis
    \/ DetectSubjects

Spec == Init /\ [][Next]_vars

-----------------------------------------------------------------------------
(* Repeated calls: the analysis operations called one after another on a    *)
(* sequence of buffers, each call recorded in log.                           *)

MaxCalls == 3

\* The buffers the calls are made on: a 3 x 3 buffer with a white centre on
\* black, and a 5 x 1 buffer with a skin tone at x = 0 on black.
CallBuffers ==
    { ImageData(3, 3, [p \in 0..8 |-> IF p = 4 THEN <<255, 255, 255, 255>> ELSE <<0, 0, 0, 255>>]),
      ImageData(5, 1, [p \in 0..4 |-> IF p = 0 THEN Skin ELSE <<0, 0, 0, 255>>]) }

AnalysisOps ==
    { "detectEdges", "findRegionsOfInterest", "getDominantColors", "getBrightness",
      "detectSubjects", "analyzeComposition", "generateCropSuggestions",
      "getIntelligentCropSuggestions" }

\* The crop selections an operation is called with: only analyzeComposition
\* takes one.
CallArgs(name) ==
    IF name = "analyzeComposition"
    THEN { Null, [x |-> 0, y |-> 0, width |-> 2, height |-> 2] }
    ELSE { Null }

\* What operation name returns for buffer b and crop selection a.
Returned(name, b, a) ==
    CASE name = "detectEdges" -> ImageUtils_detectEdges(b)
      [] name = "findRegionsOfInterest" -> findRegionsOfInterest(b)
      [] name = "getDominantColors" -> getDominantColors(b, 5)
      [] name = "getBrightness" -> getBrightness(b)
      [] name = "detectSubjects" -> detectSubjects(b)
      [] name = "analyzeComposition" -> analyzeComposition(b, a)
      [] name = "generateCropSuggestions" -> generateCropSuggestions(b)
      [] name = "getIntelligentCropSuggestions" -> getIntelligentCropSuggestions(b)

\* The buffer as left by operations of which getBrightness clears the colour
\* channels it has read.
BufferAfter_grayscale(name, b) ==
    IF name = "getBrightness"
    THEN [b EXCEPT !.data = [i \in 1..Len(b.data) |-> IF i % 4 = 0 THEN b.data[i] ELSE 0]]
    ELSE b

\* The buffer as operation name leaves it: every operation only reads
\* imageData.width, imageData.height and imageData.data, and none keeps
\* anything between calls.
BufferAfter(name, b) == b

\* The calls and their outcomes, by buffer, operation and crop selection.
CallKeys == { k \in CallBuffers \X AnalysisOps \X (CropSelections \cup {Null}) : k[3] \in CallArgs(k[2]) }

CallOutcomes ==
    { [op |-> k[2], buffer |-> k[1], arg |-> k[3],
       res |-> Returned(k[2], k[1], k[3]), after |-> BufferAfter(k[2], k[1])] : k \in CallKeys }

InitCalls ==
    /\ img \in CallBuffers
    /\ op = "none"
    /\ arg = Null
    /\ res = Null
    /\ log = <<>>
    /\ exportHistory = <<>>
    /\ app = Null
    /\ gesture = Null

\* One call with outcome o: img is the buffer as the call leaves it.
CallOn(o) ==
    /\ Len(log) < MaxCalls
    /\ img' = o.after
    /\ op' = o.op
    /\ arg' = o.arg
    /\ res' = o.res
    /\ log' = Append(log, o)
    /\ UNCHANGED <<exportHistory, app, gesture>>

CallsOf(name) == \E o \in CallOutcomes : o.op = name /\ CallOn(o)

CallDetectEdges == CallsOf("detectEdges")

CallFindRegionsOfInterest == CallsOf("findRegionsOfInterest")

CallGetDominantColors == CallsOf("getDominantColors")

CallGetBrightness == CallsOf("getBrightness")

CallDetectSubjects == CallsOf("detectSubjects")

CallAnalyzeComposition == CallsOf("analyzeComposition")

CallGenerateCropSuggestions == CallsOf("generateCropSuggestions")

CallGetIntelligentCropSuggestions == CallsOf("getIntelligentCropSuggestions")

NextCalls ==
    \/ CallDetectEdges
    \/ CallFindRegionsOfInterest
    \/ CallGetDominantColors
    \/ CallGetBrightness
    \/ CallDetectSubjects
    \/ CallAnalyzeComposition
    \/ CallGenerateCropSuggestions
    \/ CallGetIntelligentCropSuggestions

SpecCalls == InitCalls /\ [][NextCalls]_vars

-----------------------------------------------------------------------------
(* Invalid buffers: the entry points called on an ImageData whose data does  *)
(* not have width * height * 4 bytes, or whose width or height is 0.         *)

MaxInvalidSide == 2
MaxInvalidPixels == 5

\* data.length = width * height * 4 with width > 0 and height > 0.
ValidBuffer(im) ==
    /\ im.width > 0
    /\ im.height > 0
    /\ Len(im.data) = im.width * im.height * 4

\* Buffers that declare fewer pixels than data holds, and buffers of width or
\* height 0; pixel 0 has one colour and the others another.
InvalidBuffers ==
    { b \in { [width |-> s[1], height |-> s[2],
               data |-> [i \in 1..(4 * s[3]) |->
                           IF i <= 4 THEN s[4][((i - 1) % 4) + 1] ELSE s[5][((i - 1) % 4) + 1]]]
               : s \in (0..MaxInvalidSide) \X (0..MaxInvalidSide) \X (0..MaxInvalidPixels)
                        \X Palette \X Palette } :
        /\ ~ValidBuffer(b)
        /\ Len(b.data) >= b.width * b.height * 4 }

\* The outcome of a call that returned v.
Value(v) == [value |-> v]

\* The outcome of a call that never returns.
Diverges == [diverges |-> TRUE]

\* The scan of findRegionsOfInterest ends: with width 0 and height > 0 the
\* window is 0 wide, the outer loop is entered and y += windowSize / 2 leaves y
\* at 0.
ScanEnds(im) == ~(im.width = 0 /\ im.height > 0)

InitInvalid ==
    /\ img \in InvalidBuffers
    /\ op = "none"
    /\ arg = Null
    /\ res = Null
    /\ log = <<>>
    /\ exportHistory = <<>>
    /\ app = Null
    /\ gesture = Null

\* res is the outcome of the call: a value, or no return.
InvalidDetectEdges == Call("detectEdges", Null, Value(ImageUtils_detectEdges(img)))

InvalidGenerateCropSuggestions ==
    Call("generateCropSuggestions", Null,
         IF ScanEnds(img) THEN Value(generateCropSuggestions(img)) ELSE Diverges)

InvalidAnalyzeComposition ==
    Call("analyzeComposition", Null, Value(analyzeComposition(img, Null)))

InvalidDetectSubjects == Call("detectSubjects", Null, Value(detectSubjects(img)))

NextInvalid ==
    \/ InvalidDetectEdges
    \/ InvalidGenerateCropSuggestions
    \/ InvalidAnalyzeComposition
    \/ InvalidDetectSubjects

SpecInvalid == InitInvalid /\ [][NextInvalid]_vars

-----------------------------------------------------------------------------
(* Presets: the operations that take a preset key, called with keys that are *)
(* defined and keys that are not.                                            *)

\* The source canvases of an export.
Canvases ==
    { [width |-> 1920, height |-> 1080], [width |-> 800, height |-> 600],
      [width |-> 600, height |-> 800], [width |-> 100, height |-> 100] }

\* The seconds new Date() can give during a call.
Clock == { 0, 1 }

\* Keys of this.exportPresets and two that are not.
ExportKeys == DOMAIN exportPresets \cup { "mobile", "Web" }

\* Keys of colour grading presets and two that are not.
GradingKeys == DOMAIN colorGradingPresets \cup { "sepia", "Cinematic" }

PlatformKeys == DOMAIN getPresets \cup { "tiktok" }

FormatKeys == { "square", "post", "profile", "thumbnail", "reel" }

\* The buffers of at most two pixels.
GradingBuffers == { b \in Buffers : b.width * b.height <= 2 }

InitPresets ==
    /\ img \in GradingBuffers
    /\ op = "none"
    /\ arg = Null
    /\ res = Null
    /\ log = <<>>
    /\ exportHistory = <<>>
    /\ app = Null
    /\ gesture = Null

\* The error a call ends with is what it returns here; a successful result
\* goes to the history, newest first.
ExportWithPreset ==
    \E canvas \in Canvases, preset \in ExportKeys, timestamp \in Clock :
        /\ op = "none"
        /\ op' = "exportWithPreset"
        /\ arg' = [canvas |-> canvas, preset |-> preset]
        /\ res' = exportWithPreset(canvas, preset, "framegen-export", timestamp)
        /\ exportHistory' =
            IF preset \in DOMAIN exportPresets
            THEN HistoryAfter(exportHistory,
                              exportWithPreset(canvas, preset, "framegen-export", timestamp),
                              timestamp)
            ELSE exportHistory
        /\ UNCHANGED <<img, log, app, gesture>>

ApplyPreset ==
    \E cropSelection \in CropSelections, platform \in PlatformKeys, format \in FormatKeys :
        Call("applyPreset",
             [cropSelection |-> cropSelection, platform |-> platform, format |-> format],
             applyPreset(cropSelection, platform, format))

\* The buffer is graded in place and returned.
ApplyColorGrading ==
    \E preset \in GradingKeys :
        /\ op = "none"
        /\ op' = "applyColorGrading"
        /\ arg' = [imageData |-> img, preset |-> preset]
        /\ res' = applyColorGrading(img, preset)
        /\ img' = applyColorGrading(img, preset)
        /\ UNCHANGED <<log, exportHistory, app, gesture>>

NextPresets ==
    \/ ExportWithPreset
    \/ ApplyPreset
    \/ ApplyColorGrading

SpecPresets == InitPresets /\ [][NextPresets]_vars

-----------------------------------------------------------------------------
(* Crop selection: mouse events on the canvas of a FrameGenAI instance.  log *)
(* holds the events of the latest gesture, a run of drags kept as its last.  *)

\* The canvas coordinates of the pointer.
Coords == { 0, 5, 12, 30 }

AspectRatios == { "free", "1:1", "16:9" }

\* The mouse button is down: the latest gesture has no release yet.
ButtonDown == log # <<>> /\ log[Len(log)].type # "release"

InitCrop ==
    /\ img \in { b \in Buffers : b.width = 1 /\ b.height = 1 }
    /\ op = "none"
    /\ arg = Null
    /\ res = Null
    /\ log = <<>>
    /\ exportHistory = <<>>
    /\ app \in { FrameGenAI(loaded) : loaded \in BOOLEAN }
    /\ gesture = Null

\* p.mousePressed
MousePressed ==
    \E x \in Coords, y \in Coords :
        /\ ~ButtonDown
        /\ app.currentImage
        /\ app' = startCropSelection(app, x, y)
        /\ log' = <<[type |-> "press", x |-> x, y |-> y]>>
        /\ UNCHANGED <<img, op, arg, res, exportHistory, gesture>>

\* p.mouseDragged
MouseDragged ==
    \E x \in Coords, y \in Coords :
        /\ ButtonDown
        /\ app.currentImage /\ app.isDragging
        /\ app' = updateCropSelection(app, x, y)
        /\ log' = <<log[1], [type |-> "drag", x |-> x, y |-> y]>>
        /\ UNCHANGED <<img, op, arg, res, exportHistory, gesture>>

\* p.mouseReleased
MouseReleased ==
    /\ ButtonDown
    /\ app.currentImage
    /\ app' = finishCropSelection(app)
    /\ log' = Append(log, [type |-> "release"])
    /\ UNCHANGED <<img, op, arg, res, exportHistory, gesture>>

\* The change listener of the aspect ratio select, between gestures.
AspectRatioChanged ==
    \E value \in AspectRatios :
        /\ ~ButtonDown
        /\ app' = updateCropSelection([app EXCEPT !.aspectRatio = value], 0, 0)
        /\ UNCHANGED <<img, op, arg, res, log, exportHistory, gesture>>

NextCrop ==
    \/ MousePressed
    \/ MouseDragged
    \/ MouseReleased
    \/ AspectRatioChanged

SpecCrop == InitCrop /\ [][NextCrop]_vars

-----------------------------------------------------------------------------
(* Batch processing: the creative filters dialog, the batch upload and the  *)
(* batch run of a FrameGenAI instance.  log holds the filter selections that *)
(* were applied.                                                             *)

MaxFiles == 2
MaxFilterRuns == 1

\* The files offered to the batch upload, each with the image it decodes to.
Files ==
    { [name |-> "a.png", type |-> "image/png",
       image |-> ImageData(1, 1, [p \in 0..0 |-> <<200, 100, 50, 255>>])],
      [name |-> "b.jpg", type |-> "image/jpeg",
       image |-> ImageData(2, 1, [p \in 0..1 |-> IF p = 0 THEN <<255, 255, 255, 255>>
                                                 ELSE <<200, 100, 50, 255>>])],
      [name |-> "notes.txt", type |-> "text/plain", image |-> Null] }

FileLists == UNION { [1..n -> Files] : n \in 0..MaxFiles }

\* The values Math.random() is given.
Randoms == { R(0, 1), R(9, 10) }

\* One value of Math.random() for each pixel of an image.
RandomsFor(im) == [1..(im.width * im.height) -> Randoms]

\* file.type.startsWith('image/')
IsImageFile(file) == file.type \in { "image/png", "image/jpeg" }

InitBatch ==
    /\ img \in { b \in Buffers : b.width = 1 /\ b.height = 1 }
    /\ op = "none"
    /\ arg = Null
    /\ res = Null
    /\ log = <<>>
    /\ exportHistory = <<>>
    /\ app = FrameGenAI(TRUE)
    /\ gesture = Null

HandleBatchUpload ==
    \E files \in FileLists :
        /\ app' = [app EXCEPT !.batchQueue = SelectSeq(files, IsImageFile)]
        /\ op' = "handleBatchUpload"
        /\ arg' = Null
        /\ res' = Null
        /\ UNCHANGED <<img, log, exportHistory, gesture>>

ClearBatchQueue ==
    /\ app' = [app EXCEPT !.batchQueue = <<>>]
    /\ op' = "clearBatchQueue"
    /\ arg' = Null
    /\ res' = Null
    /\ UNCHANGED <<img, log, exportHistory, gesture>>

\* The dialog's Apply: the filters that are selected are applied to the canvas
\* and become the active filters; with none selected nothing changes.
ProcessCreativeFilters ==
    \E vintage \in BOOLEAN, dramatic \in BOOLEAN, colorGrading \in { "", "warm" } :
        \E randoms \in RandomsFor(img) :
            /\ Len(log) < MaxFilterRuns
            /\ op' = "processCreativeFilters"
            /\ arg' = Null
            /\ res' = Null
            /\ IF ~vintage /\ ~dramatic /\ colorGrading = ""
               THEN UNCHANGED <<img, app, log>>
               ELSE /\ img' = Filtered(img, vintage, dramatic, colorGrading, colorGrading, randoms)
                    /\ app' = [app EXCEPT !.activeFilters =
                                  [vintage |-> vintage, dramatic |-> dramatic,
                                   colorGrading |-> colorGrading]]
                    /\ log' = Append(log, [vintage |-> vintage, dramatic |-> dramatic,
                                           colorGrading |-> colorGrading])
            /\ UNCHANGED <<exportHistory, gesture>>

\* The settings object startBatchProcessing builds.
BatchSettings(a) ==
    [aspectRatio |-> a.aspectRatio, quality |-> a.cropQuality, filters |-> a.activeFilters]

\* res is what showBatchResults is handed; isBatchProcessing is set and, in
\* the finally block, cleared.
StartBatchProcessing ==
    /\ op' = "startBatchProcessing"
    /\ arg' = Null
    /\ IF app.batchQueue = <<>>
       THEN res' = Null
       ELSE \E randoms \in [1..Len(app.batchQueue) -> UNION { RandomsFor(f.image) : f \in { g \in Files : IsImageFile(g) } }] :
                /\ \A i \in 1..Len(app.batchQueue) : randoms[i] \in RandomsFor(app.batchQueue[i].image)
                /\ res' = processBatch(app.batchQueue, BatchSettings(app), randoms)
    /\ app' = [app EXCEPT !.isBatchProcessing = FALSE]
    /\ UNCHANGED <<img, log, exportHistory, gesture>>

NextBatch ==
    \/ HandleBatchUpload
    \/ ClearBatchQueue
    \/ ProcessCreativeFilters
    \/ StartBatchProcessing

SpecBatch == InitBatch /\ [][NextBatch]_vars

-----------------------------------------------------------------------------
(* Grouping: groupRegions applied to the sample points detectSubjects        *)
(* accepted, in scan order.  arg holds the points.                           *)

\* The sample points: multiples of 4, some pairs within 50 of each other and
\* some not ((44, 0) is 44 from (0, 0) and 8 from (52, 0)).
SamplePoints == { 0, 44, 52, 100 } \X { 0, 48 }

\* The accepted points of a set, in scan order (y outer, x inner), each with
\* the score of a skin tone.
InScanOrder(points) ==
    LET all == <<<<0, 0>>, <<44, 0>>, <<52, 0>>, <<100, 0>>,
                 <<0, 48>>, <<44, 48>>, <<52, 48>>, <<100, 48>>>>
        kept == SelectSeq(all, LAMBDA p : p \in points)
    IN  [k \in 1..Len(kept) |-> [x |-> kept[k][1], y |-> kept[k][2], score |-> R(8, 10)]]

InitGroups ==
    /\ img = ImageData(1, 1, [p \in 0..0 |-> <<0, 0, 0, 255>>])
    /\ op = "none"
    /\ arg \in { InScanOrder(points) : points \in SUBSET SamplePoints }
    /\ res = Null
    /\ log = <<>>
    /\ exportHistory = <<>>
    /\ app = Null
    /\ gesture = Null

GroupRegions ==
    /\ op = "none"
    /\ op' = "groupRegions"
    /\ res' = groupRegions(arg, 50)
    /\ UNCHANGED <<img, arg, log, exportHistory, app, gesture>>

NextGroups == GroupRegions

SpecGroups == InitGroups /\ [][NextGroups]_vars

-----------------------------------------------------------------------------
(* The vote threshold of detectLeadingLines.  A tally of 50 needs more than
   fifty edge pixels on one line of the half-resolution scan, which no buffer
   of the sizes above has, so the tallies of the (angle, distance) loop are
   drawn directly and the rest of the method is applied to them. *)

MaxLines == 6

SampleVotes == { 50, 51, 100, 120 }

\* The tallies in loop order: the k-th has angle 5 * (k - 1) and distance 0.
Tallies(votes) ==
    [k \in 1..Len(votes) |-> [angle |-> 5 * (k - 1), distance |-> 0, votes |-> votes[k]]]

VoteLists == UNION { [1..n -> SampleVotes] : n \in 0..MaxLines }

InitLines ==
    /\ img = ImageData(1, 1, [p \in 0..0 |-> <<0, 0, 0, 255>>])
    /\ op = "none"
    /\ arg \in { Tallies(votes) : votes \in VoteLists }
    /\ res = Null
    /\ log = <<>>
    /\ exportHistory = <<>>
    /\ app = Null
    /\ gesture = Null

DetectLeadingLines ==
    /\ op = "none"
    /\ op' = "detectLeadingLines"
    /\ res' = LeadingLines(SortLines(KeepLines(arg)))
    /\ UNCHANGED <<img, arg, log, exportHistory, app, gesture>>

NextLines == DetectLeadingLines

SpecLines == InitLines /\ [][NextLines]_vars

-----------------------------------------------------------------------------
(* A page with a GestureController: fingers go down on the canvas, move and  *)
(* lift, the mouse and the wheel are used, reset and setEnabled are called,  *)
(* the clock advances and the timers that are due run.  Beside the           *)
(* controller's fields, gesture holds the fingers that are down (with the    *)
(* time each went down and whether it moved since), the number of events,    *)
(* the time of the last single-finger touchstart the controller handled      *)
(* (-1 when there is none) and whether the mouse was used.  A timer that is  *)
(* due runs before anything else happens.                                    *)

MaxEvents == 4

MaxTicks == 2

\* The clock at construction and the step of the clock, in milliseconds.
PageLoad == 1000

TickMs == 250

Points == { <<0, 0>>, <<30, 0>>, <<30, 40>> }

Fingers == { 0, 1 }

Touch(f) == [identifier |-> f.identifier, clientX |-> f.clientX, clientY |-> f.clientY]

\* event.touches: the fingers that are down, by identifier.
RECURSIVE TouchList(_)
TouchList(fingers) ==
    IF fingers = {} THEN <<>>
    ELSE LET first == CHOOSE f \in fingers : \A o \in fingers : f.identifier <= o.identifier
         IN  <<Touch(first)>> \o TouchList(fingers \ { first })

InitGesture ==
    /\ img = ImageData(1, 1, [p \in 0..0 |-> <<0, 0, 0, 255>>])
    /\ op = "none"
    /\ arg = Null
    /\ res = Null
    /\ log = <<>>
    /\ exportHistory = <<>>
    /\ app = Null
    /\ gesture = [fingers |-> {}, events |-> 0, tapAt |-> -1, mouse |-> FALSE]
                 @@ GestureController(PageLoad)

\* No timer is due.
Quiet == \A t \in gesture.timers : gesture.now < t.due

\* An event of the page leaves the controller as g.
Event(g) ==
    /\ Quiet
    /\ gesture.events < MaxEvents
    /\ gesture' = [g EXCEPT !.events = @ + 1]
    /\ UNCHANGED <<img, op, arg, res, log, exportHistory, app>>

TouchStart ==
    \E identifier \in Fingers, p \in Points :
        /\ \A f \in gesture.fingers : f.identifier # identifier
        /\ LET down == gesture.fingers \cup
                         { [identifier |-> identifier, clientX |-> p[1], clientY |-> p[2],
                            downAt |-> gesture.now, moved |-> FALSE] }
           IN  Event(handleTouchStart(
                       [gesture EXCEPT
                          !.fingers = down,
                          !.tapAt = IF Cardinality(down) = 1 /\ gesture.isEnabled
                                    THEN gesture.now ELSE @],
                       TouchList(down)))

TouchMove ==
    \E f \in gesture.fingers, p \in Points :
        /\ p # <<f.clientX, f.clientY>>
        /\ LET down == (gesture.fingers \ { f }) \cup
                         { [f EXCEPT !.clientX = p[1], !.clientY = p[2], !.moved = TRUE] }
           IN  Event(handleTouchMove([gesture EXCEPT !.fingers = down], TouchList(down)))

\* touchend and touchcancel have the same listener.
TouchEnd ==
    \E f \in gesture.fingers, type \in { "touchend", "touchcancel" } :
        Event(handleTouchEnd([gesture EXCEPT !.fingers = @ \ { f }], <<Touch(f)>>))

MouseDown ==
    \E p \in Points :
        Event(handleMouseDown([gesture EXCEPT !.mouse = TRUE], p[1], p[2]))

MouseMove == \E p \in Points : Event(handleMouseMove(gesture, p[1], p[2]))

MouseUp == Event(handleMouseUp(gesture))

Wheel == \E deltaY \in { -100, 100 } : Event(handleWheel(gesture, deltaY))

Reset == Event(GestureController_reset(gesture))

SetEnabled == \E enabled \in BOOLEAN : Event(setEnabled(gesture, enabled))

Tick ==
    /\ Quiet
    /\ gesture.now < PageLoad + MaxTicks * TickMs
    /\ gesture' = [gesture EXCEPT !.now = @ + TickMs]
    /\ UNCHANGED <<img, op, arg, res, log, exportHistory, app>>

\* The callback of a timer that is due: () => this.handleLongPress(touch).
Timeout ==
    \E t \in gesture.timers :
        /\ gesture.now >= t.due
        /\ gesture' = handleLongPress([gesture EXCEPT !.timers = @ \ { t }],
                                      [identifier |-> t.touch])
        /\ UNCHANGED <<img, op, arg, res, log, exportHistory, app>>

NextGesture ==
    \/ TouchStart
    \/ TouchMove
    \/ TouchEnd
    \/ MouseDown
    \/ MouseMove
    \/ MouseUp
    \/ Wheel
    \/ Reset
    \/ SetEnabled
    \/ Tick
    \/ Timeout

SpecGesture == InitGesture /\ [][NextGesture]_vars

-----------------------------------------------------------------------------
(* A canvas with a CropGestureController: mouse and touch starts, moves and  *)
(* ends in any order.  Beside the controller's fields, gesture holds the     *)
(* number of events and whether a start event came after the last end event. *)

MaxCropEvents == 4

CropPoints == { <<0, 0>>, <<50, 60>>, <<100, 100>>, <<200, 200>> }

InitCropGesture ==
    /\ img = ImageData(1, 1, [p \in 0..0 |-> <<0, 0, 0, 255>>])
    /\ op = "none"
    /\ arg = Null
    /\ res = Null
    /\ log = <<>>
    /\ exportHistory = <<>>
    /\ app = Null
    /\ \E cropSelection \in { Null, [x |-> 0, y |-> 0, width |-> 100, height |-> 100] } :
          gesture = [events |-> 0, started |-> FALSE] @@ CropGestureController(cropSelection)

\* An event of the canvas leaves the controller as c.
CropEvent(c, started) ==
    /\ gesture.events < MaxCropEvents
    /\ gesture' = [c EXCEPT !.events = @ + 1, !.started = started]
    /\ UNCHANGED <<img, op, arg, res, log, exportHistory, app>>

CropMouseDown == \E p \in CropPoints : CropEvent(handleCropStart(gesture, p[1], p[2]), TRUE)

CropTouchStart ==
    \E p \in CropPoints, touches \in 1..2 :
        CropEvent(handleCropTouchStart(gesture, touches, p[1], p[2]), TRUE)

CropMouseMove ==
    \E p \in CropPoints : CropEvent(handleCropMove(gesture, p[1], p[2]), gesture.started)

CropTouchMove ==
    \E p \in CropPoints, touches \in 1..2 :
        CropEvent(handleCropTouchMove(gesture, touches, p[1], p[2]), gesture.started)

CropMouseUp == CropEvent(handleCropEnd(gesture), FALSE)

CropTouchEnd == CropEvent(handleCropEnd(gesture), FALSE)

NextCropGesture ==
    \/ CropMouseDown
    \/ CropTouchStart
    \/ CropMouseMove
    \/ CropTouchMove
    \/ CropMouseUp
    \/ CropTouchEnd

SpecCropGesture == InitCropGesture /\ [][NextCropGesture]_vars

-----------------------------------------------------------------------------
(* The export history: an ExportManager that has made MaxFill exports with   *)
(* the web preset, or none, and then takes calls of exportImage,             *)
(* exportWithPreset and clearHistory, each awaited before the next.  The     *)
(* clock advances by one second per call.  log holds the entries of the      *)
(* successful exports since the last clearHistory, oldest first; arg holds   *)
(* the number of the call, its options and the history it found.             *)

MaxFill == 8

MaxExports == 3

HistoryCanvases == { [width |-> 1920, height |-> 1080], [width |-> 600, height |-> 800] }

\* The entries of the successful ones of some results, oldest first.
SuccessfulEntries(results, timestamp) ==
    LET exported == SelectSeq(results, LAMBDA result : result.success)
    IN  [k \in 1..Len(exported) |-> HistoryEntry(exported[k], timestamp)]

WebExport(timestamp) ==
    exportWithPreset([width |-> 1920, height |-> 1080], "web", "framegen-export", timestamp)

\* The history and the successful exports after the web exports k..MaxFill.
\* A history is never longer than the list of the exports made; the lengths
\* are taken so that each export is evaluated before the next.
RECURSIVE FillFrom(_, _, _)
FillFrom(history, exported, k) ==
    IF k > MaxFill \/ Len(exported) < Len(history) THEN [history |-> history, exported |-> exported]
    ELSE FillFrom(HistoryAfter(history, WebExport(k), k),
                  exported \o SuccessfulEntries(WebExport(k), k),
                  k + 1)

InitHistory ==
    /\ img = ImageData(1, 1, [p \in 0..0 |-> <<0, 0, 0, 255>>])
    /\ op = "none"
    /\ arg = [n |-> 0]
    /\ res = Null
    /\ \E filled \in { [history |-> <<>>, exported |-> <<>>], FillFrom(<<>>, <<>>, 1) } :
          /\ exportHistory = filled.history
          /\ log = filled.exported
    /\ app = Null
    /\ gesture = Null

ExportImageCall ==
    \E canvas \in HistoryCanvases, format \in { "png", "jpg", "tiff" } :
        LET timestamp == MaxFill + arg.n + 1
            result == exportImage(canvas, format, "framegen-export", 640, 360, timestamp)
        IN  /\ arg.n < MaxExports
            /\ op' = "exportImage"
            /\ arg' = [n |-> arg.n + 1, format |-> format, history |-> exportHistory]
            /\ res' = result
            /\ exportHistory' = HistoryAfter(exportHistory, <<result>>, timestamp)
            /\ log' = log \o SuccessfulEntries(<<result>>, timestamp)
            /\ UNCHANGED <<img, app, gesture>>

\* With a key that is no preset the call throws before any export is made.
ExportWithPresetCall ==
    \E canvas \in HistoryCanvases, preset \in DOMAIN exportPresets \cup { "mobile" } :
        LET timestamp == MaxFill + arg.n + 1
            results == exportWithPreset(canvas, preset, "framegen-export", timestamp)
        IN  /\ arg.n < MaxExports
            /\ op' = "exportWithPreset"
            /\ arg' = [n |-> arg.n + 1, preset |-> preset, history |-> exportHistory]
            /\ res' = results
            /\ IF preset \in DOMAIN exportPresets
               THEN /\ exportHistory' = HistoryAfter(exportHistory, results, timestamp)
                    /\ log' = log \o SuccessfulEntries(results, timestamp)
               ELSE UNCHANGED <<exportHistory, log>>
            /\ UNCHANGED <<img, app, gesture>>

ClearHistoryCall ==
    /\ arg.n < MaxExports
    /\ op' = "clearHistory"
    /\ arg' = [n |-> arg.n + 1, history |-> exportHistory]
    /\ res' = Null
    /\ exportHistory' = <<>>
    /\ log' = <<>>
    /\ UNCHANGED <<img, app, gesture>>

NextHistory ==
    \/ ExportImageCall
    \/ ExportWithPresetCall
    \/ ClearHistoryCall

SpecHistory == InitHistory /\ [][NextHistory]_vars

-----------------------------------------------------------------------------
(* A batch run step by step: startBatchProcessing up to its await, the load  *)
(* or error event of the Image of processImage, the callback of toBlob, and  *)
(* the rest of startBatchProcessing after the await.  app also holds whether *)
(* the loading overlay is shown and the run: its phase ("idle", "loading"    *)
(* while an Image loads, "error" once its error event went unanswered,       *)
(* "encoding" while toBlob works, "settled" once processBatch has returned), *)
(* the images and settings it was started with, the index of the image in    *)
(* work and the results so far.  The start button is pressed while no run is *)
(* in progress.  The browser delivers every event and callback that is       *)
(* pending, hence the weak fairness of those steps.                          *)

\* The image files of Files and one that has an image type and does not decode.
RunFiles ==
    { f \in Files : IsImageFile(f) }
    \cup { [name |-> "broken.png", type |-> "image/png", image |-> Null] }

RunFileLists == UNION { [1..n -> RunFiles] : n \in 0..MaxFiles }

IdleRun == [phase |-> "idle", images |-> <<>>, settings |-> Null, i |-> 0, results |-> <<>>]

InitBatchRun ==
    /\ img = ImageData(1, 1, [p \in 0..0 |-> <<0, 0, 0, 255>>])
    /\ op = "none"
    /\ arg = Null
    /\ res = Null
    /\ log = <<>>
    /\ exportHistory = <<>>
    /\ app = [loading |-> FALSE, run |-> IdleRun] @@ FrameGenAI(TRUE)
    /\ gesture = Null

RunBatchUpload ==
    \E files \in RunFileLists :
        /\ app' = [app EXCEPT !.batchQueue = SelectSeq(files, IsImageFile)]
        /\ UNCHANGED <<img, op, arg, res, log, exportHistory, gesture>>

\* startBatchProcessing up to the await; log takes the toast of an empty queue.
RunStart ==
    /\ app.run.phase = "idle"
    /\ IF app.batchQueue = <<>>
       THEN /\ log' = <<"No images in batch queue.">>
            /\ UNCHANGED app
       ELSE /\ app' = [app EXCEPT
                         !.isBatchProcessing = TRUE,
                         !.loading = TRUE,
                         !.run = [phase |-> "loading", images |-> app.batchQueue,
                                  settings |-> BatchSettings(app), i |-> 1,
                                  results |-> <<>>]]
            /\ log' = <<>>
    /\ UNCHANGED <<img, op, arg, res, exportHistory, gesture>>

\* img.onload of processImage: the filters, then canvas.toBlob(resolve, ...).
RunImageLoaded ==
    /\ app.run.phase = "loading"
    /\ app.run.images[app.run.i].image # Null
    /\ \E randoms \in RandomsFor(app.run.images[app.run.i].image) :
          app' = [app EXCEPT
                    !.run.phase = "encoding",
                    !.run.results =
                        Append(@, [original |-> app.run.images[app.run.i].name,
                                   processed |-> processImage(app.run.images[app.run.i],
                                                              app.run.settings, randoms),
                                   settings |-> app.run.settings])]
    /\ UNCHANGED <<img, op, arg, res, log, exportHistory, gesture>>

\* The error event of an Image that does not decode: processImage sets no
\* onerror and its promise has no reject, so nothing follows.
RunImageError ==
    /\ app.run.phase = "loading"
    /\ app.run.images[app.run.i].image = Null
    /\ app' = [app EXCEPT !.run.phase = "error"]
    /\ UNCHANGED <<img, op, arg, res, log, exportHistory, gesture>>

\* The callback of toBlob resolves the promise; processBatch goes on to the
\* next image or returns.
RunBlobReady ==
    /\ app.run.phase = "encoding"
    /\ app' = IF app.run.i < Len(app.run.images)
              THEN [app EXCEPT !.run.phase = "loading", !.run.i = @ + 1]
              ELSE [app EXCEPT !.run.phase = "settled"]
    /\ UNCHANGED <<img, op, arg, res, log, exportHistory, gesture>>

\* After the await: showBatchResults(results) and the finally block.
RunFinish ==
    /\ app.run.phase = "settled"
    /\ op' = "startBatchProcessing"
    /\ res' = [results |-> app.run.results]
    /\ app' = [app EXCEPT !.isBatchProcessing = FALSE, !.loading = FALSE, !.run = IdleRun]
    /\ UNCHANGED <<img, arg, log, exportHistory, gesture>>

NextBatchRun ==
    \/ RunBatchUpload
    \/ RunStart
    \/ RunImageLoaded
    \/ RunImageError
    \/ RunBlobReady
    \/ RunFinish

SpecBatchRun ==
    /\ InitBatchRun
    /\ [][NextBatchRun]_vars
    /\ WF_vars(RunImageLoaded)
    /\ WF_vars(RunImageError)
    /\ WF_vars(RunBlobReady)
    /\ WF_vars(RunFinish)

-----------------------------------------------------------------------------
(* Vocabulary of the properties *)

\* Every pixel has the RGB value of pixel 0.
Uniform(im) ==
    \A p \in 1..(Len(im.data) \div 4) : \A c \in 1..3 : im.data[4 * (p - 1) + c] = im.data[c]

\* Element i of an edge map lies in row 0, row height-1, column 0 or column
\* width-1.
IsBorder(im, i) ==
    LET x == (i - 1) % im.width
        y == (i - 1) \div im.width
    IN  x = 0 \/ x = im.width - 1 \/ y = 0 \/ y = im.height - 1

\* A crop rectangle in fractions of the image.
NormalizedCrop(c) ==
    /\ InUnit(c.x) /\ InUnit(c.y) /\ InUnit(c.width) /\ InUnit(c.height)
    /\ RLe(RAdd(c.x, c.width), I(1))
    /\ RLe(RAdd(c.y, c.height), I(1))

\* The indexes of the suggestions of a list that carry a name.
Named(list, name) == { k \in 1..Len(list) : list[k].name = name }

\* r + g + b of pixel (x, y).
PixelSum(im, x, y) == Sum3(im.data, (y * im.width + x) * 4)

\* The buffer mirrored horizontally.
Mirror(im) ==
    [im EXCEPT !.data =
        [i \in 1..Len(im.data) |->
            LET pxl == (i - 1) \div 4
                x == pxl % im.width
                y == pxl \div im.width
            IN  im.data[4 * (y * im.width + (im.width - 1 - x)) + ((i - 1) % 4) + 1]]]

\* Every row reads the same from the left and from the right, in luma.
RowsMirrored(im) ==
    \A x \in 0..(im.width - 1), y \in 0..(im.height - 1) :
        PixelSum(im, x, y) = PixelSum(im, im.width - 1 - x, y)

\* The sum of an integer-valued function over its domain.
RECURSIVE SumFn(_)
SumFn(f) ==
    IF DOMAIN f = {} THEN 0
    ELSE LET e == CHOOSE e \in DOMAIN f : TRUE
         IN  f[e] + SumFn([q \in DOMAIN f \ {e} |-> f[q]])

\* The mean over the rows y and the columns x < width / 2 of
\* 1 - |luma(x, y) - luma(width-1-x, y)| / 255, luma = (r + g + b) / 3.
SymmetryMean(im) ==
    LET cells == { c \in (0..(im.width - 1)) \X (0..(im.height - 1)) : 2 * c[1] < im.width }
        diff3 == [c \in cells |->
                    Abs(PixelSum(im, c[1], c[2]) - PixelSum(im, im.width - 1 - c[1], c[2]))]
    IN  R(765 * Cardinality(cells) - SumFn(diff3), 765 * Cardinality(cells))

EdgeOps == { "detectEdges", "AIComposer.detectEdges", "AdvancedImageAnalysis.detectEdges" }

-----------------------------------------------------------------------------
(* C1 *)

\* C1: detectEdges returns a map of width*height entries in which every entry
\* is a number >= 0 and every entry of row 0, row height-1, column 0 and column
\* width-1 is exactly 0.  (The code leaves those entries unassigned.)
C1_EdgeMapNumbersBorderZero ==
    op \in EdgeOps =>
        /\ Len(res) = img.width * img.height
        /\ \A i \in 1..Len(res) :
            /\ res[i] # Hole
            /\ res[i] >= 0
            /\ IsBorder(img, i) => res[i] = 0

-----------------------------------------------------------------------------
(* C2 *)

\* C2: analyzeComposition returns technicalScore, artisticScore,
\* compositionScore and overallScore each within [0,1], and each of the six
\* rule sub-scores is within [0,1], for every buffer and crop selection.
\* (The code yields NaN for all-black, non-square and tiny buffers.)
C2_ScoresWithinUnit ==
    op = "analyzeComposition" =>
        /\ InUnit(res.technicalScore)
        /\ InUnit(res.artisticScore)
        /\ InUnit(res.compositionScore)
        /\ InUnit(res.overallScore)
        /\ \A scores \in { compositionRules(img, arg) } :
            /\ InUnit(scores.ruleOfThirds)
            /\ InUnit(scores.goldenRatio)
            /\ InUnit(scores.symmetry)
            /\ InUnit(scores.leadingLines)
            /\ InUnit(scores.balance)
            /\ InUnit(scores.depth)

-----------------------------------------------------------------------------
(* C3 *)

\* C3: the list returned by generateCropSuggestions and by
\* getIntelligentCropSuggestions holds the generated suggestions in
\* non-increasing order of score, and two suggestions of equal score appear in
\* the order in which they were generated.
C3_SortedByScoreStable ==
    op \in { "generateCropSuggestions", "getIntelligentCropSuggestions" } =>
        LET generated == IF op = "generateCropSuggestions"
                         THEN GeneratedCropSuggestions(img)
                         ELSE IntelligentCropSuggestions(img)
            at(e) == CHOOSE k \in 1..Len(generated) : generated[k] = e
        IN  /\ Len(res) = Len(generated)
            /\ { res[k] : k \in 1..Len(res) } = { generated[k] : k \in 1..Len(generated) }
            /\ \A i \in 1..Len(res), j \in 1..Len(res) :
                i < j => /\ res[i].score >= res[j].score
                         /\ res[i].score = res[j].score => at(res[i]) < at(res[j])

\* All five suggestions were generated, in an order that is not that of the
\* scores (75, 85, 70, 80, 90).
C3_Witness ==
    /\ op = "generateCropSuggestions"
    /\ Len(res) = 5
    /\ GeneratedCropSuggestions(img) # res

-----------------------------------------------------------------------------
(* C4 *)

\* C4: generateCropSuggestions returns exactly one 'Balanced Composition'
\* (score 75), one 'Rule of Thirds' (score 80) and one 'Golden Ratio' (score
\* 90); a 'Focus on Interest' (score 85, its crop the highest-scoring region of
\* interest) exactly when findRegionsOfInterest is non-empty; a 'Dark Image
\* Enhancement' (score 70) exactly when getBrightness < 0.4; and nothing else.
C4_SuggestionSet ==
    op = "generateCropSuggestions" =>
        LET rois == findRegionsOfInterest(img)
            dark == RLt(getBrightness(img), R(4, 10))
            one(name, score) == /\ Cardinality(Named(res, name)) = 1
                                /\ \A k \in Named(res, name) : res[k].score = score
        IN  /\ one("Balanced Composition", 75)
            /\ one("Rule of Thirds", 80)
            /\ one("Golden Ratio", 90)
            /\ IF Len(rois) > 0
               THEN /\ one("Focus on Interest", 85)
                    /\ \A k \in Named(res, "Focus on Interest") :
                        /\ \E r \in 1..Len(rois) : rois[r] = res[k].crop
                        /\ \A r \in 1..Len(rois) : ~RoiGT(rois[r], res[k].crop)
               ELSE Named(res, "Focus on Interest") = {}
            /\ IF dark THEN one("Dark Image Enhancement", 70)
               ELSE Named(res, "Dark Image Enhancement") = {}
            /\ Len(res) = 3 + (IF Len(rois) > 0 THEN 1 ELSE 0) + (IF dark THEN 1 ELSE 0)

\* A bright buffer with a region of interest: four suggestions, the second
\* being the focus on the best region.
C4_Witness ==
    /\ op = "generateCropSuggestions"
    /\ Len(res) = 4
    /\ res[2].name = "Focus on Interest"
    /\ Len(findRegionsOfInterest(img)) > 1

-----------------------------------------------------------------------------
(* C5 *)

\* C5: every crop rectangle of every suggestion of generateCropSuggestions
\* and of getIntelligentCropSuggestions is in normalized fractions: x, y, width
\* and height within [0,1], x + width <= 1 and y + height <= 1.
\* (getIntelligentCropSuggestions emits pixel coordinates.)
C5_CropsNormalized ==
    op \in { "generateCropSuggestions", "getIntelligentCropSuggestions" } =>
        \A k \in 1..Len(res) : NormalizedCrop(res[k].crop)

-----------------------------------------------------------------------------
(* C6 *)

\* C6: for every buffer size the golden-ratio suggestion of
\* generateCropSuggestions has crop width 0.6 and crop height 0.6 / 1.618.
C6_GoldenRatioCrop ==
    op = "generateCropSuggestions" =>
        /\ Named(res, "Golden Ratio") # {}
        /\ \A k \in Named(res, "Golden Ratio") :
            /\ res[k].crop.width = R(6, 10)
            /\ res[k].crop.height = R(600, 1618)

\* A buffer that is not square.
C6_Witness ==
    /\ op = "generateCropSuggestions"
    /\ img.width = 4
    /\ img.height = 3
    /\ res[1].name = "Golden Ratio"

-----------------------------------------------------------------------------
(* C7 *)

\* C7: for a buffer whose pixels all have the same RGB value, detectEdges
\* yields magnitude 0 at every pixel and findRegionsOfInterest returns an empty
\* list.  (The border entries of the map are unassigned, not 0.)
C7_UniformNoEdgesNoRegions ==
    Uniform(img) =>
        /\ op = "detectEdges" => \A i \in 1..(img.width * img.height) : res[i] = 0
        /\ op = "findRegionsOfInterest" => res = <<>>

-----------------------------------------------------------------------------
(* C8 *)

\* C8: for a buffer whose pixels all have the same RGB value, of any width and
\* height and any colour including black, the balance score is 1, both from
\* calculateBalance and from balanceAnalysis.  (The code yields NaN for black,
\* and other values for odd or non-square sizes.)
C8_UniformBalanceOne ==
    Uniform(img) =>
        /\ op = "calculateBalance" => res = I(1)
        /\ op = "balanceAnalysis" => res = I(1)

-----------------------------------------------------------------------------
(* C9 *)

\* C9: the symmetry score is the mean over every row y and every column
\* x < width/2 of 1 - |luma(x,y) - luma(width-1-x,y)| / 255; it is exactly 1
\* when every row is mirror symmetric in luma, and it is unchanged when the
\* buffer is mirrored horizontally.
C9_SymmetryMean ==
    /\ op = "symmetryAnalysis" =>
        /\ res = SymmetryMean(img)
        /\ RowsMirrored(img) => res = I(1)
        /\ symmetryAnalysis(Mirror(img), Null) = res
    /\ op = "calculateSymmetry" =>
        /\ res = SymmetryMean(img)
        /\ RowsMirrored(img) => res = I(1)
        /\ calculateSymmetry(Mirror(img)) = res

\* A buffer of odd width that is not mirror symmetric: the score is below 1
\* and the centre column is paired with itself.
C9_Witness ==
    /\ op = "symmetryAnalysis"
    /\ img.width = 3
    /\ ~RowsMirrored(img)
    /\ RLt(res, I(1))

-----------------------------------------------------------------------------
(* C10 *)

-----------------------------------------------------------------------------
(* C11 *)

\* C11 as stated: generateFibonacciGrid(width, height) returns one point for
\* each element of the 12-element sequence 1, 1, 2, 3, 5, 8, 13, 21, 34, 55, 89,
\* 144, in order, with x = fib[i]/144 * width and y = fib[i]/144 * height.
\* (The loop starts at the second element: 11 points are returned.)
C11_TwelvePoints ==
    op = "generateFibonacciGrid" =>
        LET seq12 == <<1, 1, 2, 3, 5, 8, 13, 21, 34, 55, 89, 144>>
        IN  /\ Len(res) = 12
            /\ \A i \in 1..12 :
                /\ res[i].x = R(seq12[i] * arg.width, 144)
                /\ res[i].y = R(seq12[i] * arg.height, 144)

\* C11 amended: generateFibonacciGrid(width, height) returns 11 points, one for
\* each element of 1, 2, 3, 5, 8, 13, 21, 34, 55, 89, 144 (the sequence without
\* its first element), in order, with x = f/144 * width and y = f/144 * height;
\* for 144 x 144 the coordinates are the elements themselves.
C11_ElevenPoints ==
    op = "generateFibonacciGrid" =>
        LET seq11 == <<1, 2, 3, 5, 8, 13, 21, 34, 55, 89, 144>>
        IN  /\ Len(res) = 11
            /\ \A i \in 1..11 :
                /\ res[i].x = R(seq11[i] * arg.width, 144)
                /\ res[i].y = R(seq11[i] * arg.height, 144)
                /\ arg.width = 144 => res[i].x = I(seq11[i])

\* The grid of a 144 x 100 canvas: the last point is the corner (144, 100).
C11_Witness ==
    /\ op = "generateFibonacciGrid"
    /\ arg = [width |-> 144, height |-> 100]
    /\ res[1].x = I(1)
    /\ res[11] = [x |-> I(144), y |-> I(100), type |-> "fibonacci"]

-----------------------------------------------------------------------------
(* C12 *)

\* The centre of the crop selection c lies on one of the four thirds
\* intersections of the buffer: x + width/2 is width/3 or 2*width/3, and
\* y + height/2 is height/3 or 2*height/3 (both sides times 6).
CentreOnThirds(im, c) ==
    /\ 6 * c.x + 3 * c.width \in { 2 * im.width, 4 * im.width }
    /\ 6 * c.y + 3 * c.height \in { 2 * im.height, 4 * im.height }

\* C12: ruleOfThirdsAnalysis returns 1 for every crop selection whose centre
\* coincides with a thirds intersection, and no crop selection yields a value
\* above 1.
C12_ThirdsMaximal ==
    op = "ruleOfThirdsAnalysis" =>
        /\ RLe(res, I(1))
        /\ CentreOnThirds(img, arg) => res = I(1)

\* A crop centred on the lower right intersection (2, 2) of a 3 x 3 buffer.
C12_Witness ==
    /\ op = "ruleOfThirdsAnalysis"
    /\ img.width = 3
    /\ img.height = 3
    /\ arg = [x |-> 1, y |-> 1, width |-> 2, height |-> 2]
    /\ res = I(1)

-----------------------------------------------------------------------------
(* C13 *)

\* C13: when analyzeComposition is called without a crop selection, the
\* rule-of-thirds and the golden-ratio sub-score are both exactly 0.5, for every
\* buffer, and the call completes: it returns the analysis object.
C13_NeutralWithoutCrop ==
    (op = "analyzeComposition" /\ arg = Null) =>
        /\ \A scores \in { compositionRules(img, Null) } :
            /\ scores.ruleOfThirds = R(1, 2)
            /\ scores.goldenRatio = R(1, 2)
        /\ DOMAIN res = { "overallScore", "strengths", "weaknesses", "suggestions",
                          "technicalScore", "artisticScore", "compositionScore" }
        /\ Len(res.suggestions) >= 1

\* A call without crop selection on a 4 x 4 buffer that is not uniform, ending
\* with a composition score that is a number.
C13_Witness ==
    /\ op = "analyzeComposition"
    /\ arg = Null
    /\ img.width = 4
    /\ img.height = 4
    /\ ~Uniform(img)
    /\ InUnit(res.compositionScore)

-----------------------------------------------------------------------------
(* C14 *)

\* C14: findRegionsOfInterest returns at most 5 regions; every returned region
\* has a score strictly greater than 10; the regions are in non-increasing
\* score order; no window that was not returned has a score greater than a
\* returned one; and each region has x, y, width, height within [0,1] with
\* x + width <= 1 and y + height <= 1.
C14_TopRegions ==
    op = "findRegionsOfInterest" =>
        /\ Len(res) <= 5
        /\ \A k \in 1..Len(res) :
            /\ DensityGT(res[k].score, 10)
            /\ NormalizedCrop(res[k])
        /\ \A i \in 1..Len(res), j \in 1..Len(res) :
            i < j => ~ScoreGT(res[j].score, res[i].score)
        /\ \A windows \in { RoiWindows(img) } :
            /\ \A k \in 1..Len(res) : \E w \in 1..Len(windows) : windows[w] = res[k]
            /\ \A w \in 1..Len(windows) :
                (\A k \in 1..Len(res) : res[k] # windows[w])
                    => \A k \in 1..Len(res) : ~ScoreGT(windows[w].score, res[k].score)

\* Six windows pass the threshold, with different scores: five are returned.
C14_Witness ==
    /\ op = "findRegionsOfInterest"
    /\ Len(res) = 5
    /\ ScoreGT(res[1].score, res[5].score)
    /\ Len(SelectSeq(RoiWindows(img), LAMBDA r : DensityGT(r.score, 10))) > 5

C16_InvalidRejected ==
    (op \in { "detectEdges", "generateCropSuggestions", "analyzeComposition", "detectSubjects" }
        /\ ~ValidBuffer(img))
        => res = [error |-> "InvalidBuffer"]

-----------------------------------------------------------------------------
(* C17 *)

\* The buffer is smaller than the 3 x 3 neighbourhood of the convolution.
Degenerate(im) == im.width < 3 \/ im.height < 3

\* C17: for a buffer with width < 3 or height < 3, detectEdges returns
\* width * height entries that are all 0, findRegionsOfInterest returns the
\* empty list, generateCropSuggestions returns its three suggestions that are
\* always present, and analyzeComposition returns its analysis object.
C17_DegenerateGraceful ==
    Degenerate(img) =>
        /\ op = "detectEdges" =>
            /\ Len(res) = img.width * img.height
            /\ \A i \in 1..Len(res) : res[i] = 0
        /\ op = "findRegionsOfInterest" => res = <<>>
        /\ op = "generateCropSuggestions" =>
            \A name \in { "Balanced Composition", "Rule of Thirds", "Golden Ratio" } :
                Named(res, name) # {}
        /\ op = "analyzeComposition" =>
            DOMAIN res = { "overallScore", "strengths", "weaknesses", "suggestions",
                           "technicalScore", "artisticScore", "compositionScore" }

-----------------------------------------------------------------------------
(* C18 *)

\* The call ended with an error that names the key.
UnknownKeyError(r, key) ==
    \E message \in { "Unknown preset", "UnsupportedPreset" } :
        r = [error |-> message, preset |-> key]

\* C18: exportWithPreset, applyPreset and applyColorGrading called with a key
\* that is not a preset end with an error: none returns its input unchanged and
\* none uses another preset in its place.
C18_UnknownKeyIsError ==
    /\ (op = "exportWithPreset" /\ arg.preset \notin DOMAIN exportPresets)
        => UnknownKeyError(res, arg.preset)
    /\ (op = "applyPreset" /\ ~HasPreset(arg.platform, arg.format))
        => /\ res # arg.cropSelection
           /\ UnknownKeyError(res, <<arg.platform, arg.format>>)
    /\ (op = "applyColorGrading" /\ arg.preset \notin DOMAIN colorGradingPresets)
        => /\ res # GradedWith(arg.imageData, colorGradingPresets["cinematic"])
           /\ UnknownKeyError(res, arg.preset)

-----------------------------------------------------------------------------
(* C19 *)

\* C19: with aspect ratio 'free', after a press at (x0, y0), drags ending at
\* (x1, y1) and the release, isDragging is false and cropSelection is the
\* rectangle {min(x0, x1), min(y0, y1), |x1 - x0|, |y1 - y0|} when both sides
\* are longer than 10, and null otherwise.
C19_ReleaseLeavesSelection ==
    (app # Null /\ app.aspectRatio = "free" /\ Len(log) = 3 /\ log[3].type = "release") =>
        /\ ~app.isDragging
        /\ IF Abs(log[2].x - log[1].x) > 10 /\ Abs(log[2].y - log[1].y) > 10
           THEN app.cropSelection =
                    [x |-> Min2(log[1].x, log[2].x), y |-> Min2(log[1].y, log[2].y),
                     width |-> Abs(log[2].x - log[1].x), height |-> Abs(log[2].y - log[1].y)]
           ELSE app.cropSelection = Null

-----------------------------------------------------------------------------
(* C20 *)

\* One of the creative filters is active.
FilterActive(a) ==
    a.activeFilters.vintage \/ a.activeFilters.dramatic \/ a.activeFilters.colorGrading # ""

\* C20: when startBatchProcessing has run on a queue with a creative filter
\* active, there is one result for each queued image, in queue order, and each
\* holds the image with the active filters applied.
C20_BatchAppliesActiveFilters ==
    (op = "startBatchProcessing" /\ app.batchQueue # <<>> /\ FilterActive(app)) =>
        /\ Len(res) = Len(app.batchQueue)
        /\ \A i \in 1..Len(res) :
            /\ res[i].original = app.batchQueue[i].name
            /\ \E randoms \in RandomsFor(app.batchQueue[i].image) :
                res[i].processed =
                    Filtered(app.batchQueue[i].image, app.activeFilters.vintage,
                             app.activeFilters.dramatic, app.activeFilters.colorGrading,
                             app.activeFilters.colorGrading, randoms)

-----------------------------------------------------------------------------
(* C21 *)

\* The square of the distance between two points.
Distance2(p, q) == (p.x - q.x) * (p.x - q.x) + (p.y - q.y) * (p.y - q.y)

\* The groups of res that hold point p.
GroupsWith(p) == { k \in 1..Len(res) : \E m \in 1..Len(res[k].regions) : res[k].regions[m] = p }

\* The place of point p in arg.
ScanIndex(p) == CHOOSE i \in 1..Len(arg) : arg[i] = p

\* C21: groupRegions puts every point in exactly one group, the group of the
\* first seed (in scan order) within distance 50 of it, whatever later seed is
\* nearer; every member is within 50 of its group's seed, and the groups come
\* in the scan order of their seeds.
C21_EarliestSeedWins ==
    op = "groupRegions" =>
        /\ \A i \in 1..Len(arg) :
            /\ Cardinality(GroupsWith(arg[i])) = 1
            /\ \A k \in GroupsWith(arg[i]) :
                /\ Cardinality({ m \in 1..Len(res[k].regions) : res[k].regions[m] = arg[i] }) = 1
                /\ Distance2(res[k].regions[1], arg[i]) <= 50 * 50
                /\ \A j \in 1..(k - 1) : Distance2(res[j].regions[1], arg[i]) > 50 * 50
        /\ \A k \in 1..Len(res) : \A j \in 1..(k - 1) :
            ScanIndex(res[j].regions[1]) < ScanIndex(res[k].regions[1])

\* A point grouped with an earlier seed although a later seed is nearer.
C21_Witness ==
    /\ op = "groupRegions"
    /\ Len(res) >= 2
    /\ \E i \in 1..Len(arg) : \E k \in GroupsWith(arg[i]) : \E l \in (k + 1)..Len(res) :
        /\ arg[i] # res[k].regions[1]
        /\ Distance2(res[l].regions[1], arg[i]) < Distance2(res[k].regions[1], arg[i])

\* C22: every candidate with at least 50 votes is kept (one with exactly 50
\* too); the returned lines are the at most five kept candidates with the most
\* votes, in non-increasing order of votes; the score is min(topVotes / 100, 1)
\* for the largest tally kept, and 0 when none is kept.
AtLeastFifty == { k \in DOMAIN arg : arg[k].votes >= 50 }

TopVotes == CHOOSE v \in { arg[k].votes : k \in AtLeastFifty } :
                \A k \in AtLeastFifty : arg[k].votes <= v

C22_FiftyIsKept ==
    op = "detectLeadingLines" =>
        LET lines == res.lines
            returned == { k \in AtLeastFifty : \E i \in DOMAIN lines : lines[i] = arg[k] }
        IN  /\ Len(lines) = (IF Cardinality(AtLeastFifty) < 5
                              THEN Cardinality(AtLeastFifty) ELSE 5)
            /\ Cardinality(returned) = Len(lines)
            /\ \A i \in 1..(Len(lines) - 1) : lines[i].votes >= lines[i + 1].votes
            /\ \A k \in AtLeastFifty \ returned :
                   \A i \in DOMAIN lines : arg[k].votes <= lines[i].votes
            /\ res.score = (IF AtLeastFifty = {} THEN I(0)
                             ELSE RMin(R(TopVotes, 100), I(1)))

\* C23: after any sequence of touch, mouse, wheel and reset events the scale is
\* within [0.5, 3.0] and the rotation within [-180, 180].
C23_ScaleAndRotationInRange ==
    gesture # Null =>
        /\ RLe(GestureConfig.minScale, gesture.gestureState.scale)
        /\ RLe(gesture.gestureState.scale, GestureConfig.maxScale)
        /\ RLe(GestureConfig.minRotation, gesture.gestureState.rotation)
        /\ RLe(gesture.gestureState.rotation, GestureConfig.maxRotation)

\* A pinch that would leave the range of the scale was cut to its end, and
\* the fingers turned as well.
C23_Witness ==
    /\ gesture # Null
    /\ gesture.gestureState.isZooming
    /\ gesture.gestureState.scale = GestureConfig.maxScale
    /\ gesture.gestureState.rotation # I(0)

\* C24: the 'longPress' callback of a touch runs only if, 500 ms after its
\* touchstart, the touch is still down and has not moved; a touch that ended or
\* moved before that never gets one.
LongPressOf(t) ==
    /\ t \notin gesture'.timers
    /\ gesture'.calls = Append(gesture.calls, [type |-> "longPress", touch |-> t.touch])

C24_LongPressOnlyWhenHeld ==
    [][\A t \in gesture.timers :
          LongPressOf(t) =>
              \E f \in gesture.fingers :
                  /\ f.identifier = t.touch
                  /\ f.downAt + GestureConfig.longPressDelay = t.due
                  /\ ~f.moved]_vars

\* C25: a single-finger touchstart less than 300 ms after the previous one is a
\* double tap: it sets scale to 1 and rotation, translateX and translateY to 0
\* and calls the callback with 'doubleTap', and it does not start a pan.
SecondTap ==
    /\ gesture.fingers = {}
    /\ Cardinality(gesture'.fingers) = 1
    /\ gesture.isEnabled
    /\ gesture.tapAt >= 0
    /\ gesture.now - gesture.tapAt < GestureConfig.doubleTapDelay

C25_SecondTapIsDoubleTap ==
    [][SecondTap =>
          /\ gesture'.gestureState.scale = I(1)
          /\ gesture'.gestureState.rotation = I(0)
          /\ gesture'.gestureState.translateX = I(0)
          /\ gesture'.gestureState.translateY = I(0)
          /\ gesture'.calls # <<>>
          /\ gesture'.calls[Len(gesture'.calls)].type = "doubleTap"
          /\ Len(gesture'.calls) > Len(gesture.calls)
          /\ gesture'.gestureState.isPanning = gesture.gestureState.isPanning
          /\ gesture'.timers = gesture.timers]_vars

\* C26: whenever every finger that went down has been lifted, the Map of
\* touches is empty and isPanning, isZooming and isRotating are false, also
\* when setEnabled is called in between (the mouse not being used).
C26_AllLiftedIsIdle ==
    (gesture # Null /\ gesture.fingers = {} /\ ~gesture.mouse) =>
        /\ gesture.touches = {}
        /\ ~gesture.gestureState.isPanning
        /\ ~gesture.gestureState.isZooming
        /\ ~gesture.gestureState.isRotating

\* C27: in CropGestureController isResizing and isMoving are never both true,
\* and a move event changes the crop only between a start event and the end
\* event that follows it.
C27_OneModeAndMovesInsideGesture ==
    /\ [](~(gesture.isResizing /\ gesture.isMoving))
    /\ [][gesture'.cropSelection # gesture.cropSelection => gesture.started]_vars

\* The second half of C27 alone.
MovesInsideGesture ==
    [][gesture'.cropSelection # gesture.cropSelection => gesture.started]_vars

\* C28: after any calls of exportImage, exportWithPreset and clearHistory,
\* exportHistory has at most 50 entries, newest first, and they are the most
\* recent successful exports since the last clearHistory; an export that fails
\* returns success false, without throwing, and leaves exportHistory as it was.
C28_HistoryIsRecentSuccesses ==
    op \in { "exportImage", "exportWithPreset", "clearHistory" } =>
        /\ Len(exportHistory) <= 50
        /\ Len(exportHistory) = Min2(50, Len(log))
        /\ \A i \in 1..Len(exportHistory) : exportHistory[i] = log[Len(log) + 1 - i]
        /\ (op = "exportImage" /\ arg.format \notin DOMAIN supportedFormats) =>
               /\ res.success = FALSE
               /\ exportHistory = arg.history
        /\ (op = "exportWithPreset" /\ arg.preset \in DOMAIN exportPresets) =>
               \A k \in DOMAIN res :
                   res[k].format \notin DOMAIN supportedFormats => res[k].success = FALSE

\* More than 50 exports succeeded since the history was last empty, and the
\* last call was an export that failed.
C28_Witness ==
    /\ op = "exportImage"
    /\ res.success = FALSE
    /\ Len(log) > 50
    /\ Len(exportHistory) = 50

\* C29: every run of startBatchProcessing finishes: with any queue that is not
\* empty, a file that does not load as an image included, isBatchProcessing
\* is false again and the loading overlay is hidden in the end.
C29_BatchRunFinishes ==
    app.isBatchProcessing ~> (~app.isBatchProcessing /\ ~app.loading)

\* C30: getIntelligentCropSuggestions returns 'Golden Ratio Crop' (score 90)
\* first, always; it includes 'Balanced Crop' (score 80) whenever the balance
\* score of the image is below 0.6, and 'Rule of Thirds Crop' (score 85)
\* whenever its compositionScore is below 0.5.
C30_SuggestionsFollowScores ==
    op = "getIntelligentCropSuggestions" =>
        /\ res # <<>>
        /\ res[1].name = "Golden Ratio Crop"
        /\ res[1].score = 90
        /\ RLt(balanceAnalysis(img, Null), R(6, 10)) =>
               \E k \in Named(res, "Balanced Crop") : res[k].score = 80
        /\ RLt(analyzeCompositionRules(img, Null), R(5, 10)) =>
               \E k \in Named(res, "Rule of Thirds Crop") : res[k].score = 85

====
